---------------------------- MODULE Spec2Model ----------------------------
(***************************************************************************)
(* Last Trick (greggjuri/tikki): the round/trick state machine of          *)
(* GameState (game.js) with its Card and Deck classes.                      *)
(*                                                                         *)
(* The module models one GameState instance.  Every public method of the   *)
(* class is one action; a call that is rejected (playCard returning false) *)
(* is a step too, recorded in `result`.                                     *)
(***************************************************************************)
EXTENDS Integers, Sequences, FiniteSets, TLC

-----------------------------------------------------------------------------
(* Bounds of the model.                                                     *)

\* Math.random is modelled by the random streams numbered 0..MaxSeed.
MaxSeed == 3
\* Cards are played while playerScore + aiScore < MaxPoints.
MaxPoints == 1
\* The callers keep to the default line of play (the player on turn plays the
\* first legal card of the hand, clearTrick after each resolved trick and at
\* no other time) except in at most MaxDeviations calls of a round (see
\* Deviation below).
MaxDeviations == 1

-----------------------------------------------------------------------------
(* Card and Deck.                                                           *)

Players == {"player", "ai"}

Suits == <<"clubs", "diamonds", "hearts", "spades">>

Ranks == <<"2", "3", "4", "5", "6", "7", "8", "9", "10",
           "jack", "queen", "king", "ace">>

\* new Card(suit, rank)
Card(suit, rank) == [suit |-> suit, rank |-> rank]

\* The JavaScript null of the card slots and of the player slots.
null == [suit |-> "null", rank |-> "null"]

nullPlayer == "null"

\* Card.getValue: the lookup table of the method.
getValue(card) ==
  CASE card.rank = "2" -> 2
    [] card.rank = "3" -> 3
    [] card.rank = "4" -> 4
    [] card.rank = "5" -> 5
    [] card.rank = "6" -> 6
    [] card.rank = "7" -> 7
    [] card.rank = "8" -> 8
    [] card.rank = "9" -> 9
    [] card.rank = "10" -> 10
    [] card.rank = "jack" -> 11
    [] card.rank = "queen" -> 12
    [] card.rank = "king" -> 13
    [] card.rank = "ace" -> 14

\* Deck.initialize: suits outer loop, ranks inner loop.
initialize ==
  [i \in 1..(Len(Suits) * Len(Ranks)) |->
     Card(Suits[((i - 1) \div Len(Ranks)) + 1], Ranks[((i - 1) % Len(Ranks)) + 1])]

\* Math.floor(Math.random() * (i + 1)) in the shuffle loop: a value of 0..i.
\* The draws of one shuffle are the stream numbered `seed`.
randomIndex(seed, i) == (i + seed * (Len(initialize) - i)) % (i + 1)

\* [cards[i], cards[j]] = [cards[j], cards[i]] on 0-based indices.
swap(cards, i, j) ==
  [cards EXCEPT ![i + 1] = cards[j + 1], ![j + 1] = cards[i + 1]]

\* Deck.shuffle: Fisher-Yates, i from length-1 down to 1.
RECURSIVE shuffleFrom(_, _, _)
shuffleFrom(cards, i, seed) ==
  IF i > 0
  THEN shuffleFrom(swap(cards, i, randomIndex(seed, i)), i - 1, seed)
  ELSE cards

shuffle(cards, seed) == shuffleFrom(cards, Len(cards) - 1, seed)

\* The decks that deck.initialize(); deck.shuffle() can leave, by stream.
shuffledDecks == [seed \in 0..MaxSeed |-> shuffle(initialize, seed)]

Min(a, b) == IF a < b THEN a ELSE b

\* Deck.deal(count) = cards.splice(0, count): the cards handed out ...
dealt(cards, count) == SubSeq(cards, 1, Min(count, Len(cards)))

\* ... and the cards that stay in the deck.
afterDeal(cards, count) == SubSeq(cards, Min(count, Len(cards)) + 1, Len(cards))

-----------------------------------------------------------------------------
(* GameState.                                                               *)

VARIABLES
  deck,           \* this.deck.cards
  playerHand,     \* this.playerHand
  aiHand,         \* this.aiHand
  playerScore,    \* this.playerScore
  aiScore,        \* this.aiScore
  currentTrick,   \* this.currentTrick
  leadCard,       \* this.leadCard
  followCard,     \* this.followCard
  leadPlayer,     \* this.leadPlayer
  currentPlayer,  \* this.currentPlayer
  playedCards,    \* this.playedCards
  trickHistory,   \* this.trickHistory
  gameActive,     \* this.gameActive
  roundActive,    \* this.roundActive
  result,         \* what the last playCard call returned: "true" or "false"
  playLog,        \* the accepted playCard calls of the round, in order
  offProtocol,    \* whether a call of the round was made off-protocol
  deviations,     \* the number of calls off the default line
  redeals,        \* the number of redealHand calls of the round, by side
  scoreGoal,      \* this.scoreGoal
  aiDifficulty,   \* this.aiDifficulty
  localStorage,   \* the items of window.localStorage that saveSettings writes
  scoreGoalInput, \* elements.scoreGoalInput.value
  timers,         \* the pending setTimeout callbacks, in order of creation
  notification,   \* the notification modal: shown or hidden, and what OK runs
  offers          \* the redeal offers waiting for Yes or No

gameVars == <<deck, playerHand, aiHand, playerScore, aiScore, currentTrick,
              leadCard, followCard, leadPlayer, currentPlayer, playedCards,
              trickHistory, gameActive, roundActive>>

\* The settings of the game and their persisted copies.
settings == <<scoreGoal, aiDifficulty, localStorage, scoreGoalInput>>

\* The state of the interface (ui.js) and the settings, which only the
\* interface reads and writes.
uiVars == <<settings, timers, notification, offers>>

vars == <<deck, playerHand, aiHand, playerScore, aiScore, currentTrick,
          leadCard, followCard, leadPlayer, currentPlayer, playedCards,
          trickHistory, gameActive, roundActive, result, playLog,
          offProtocol, deviations, redeals, scoreGoal, aiDifficulty,
          localStorage, scoreGoalInput, timers, notification, offers>>

\* The value of `result` when no playCard call has returned yet.
noResult == "none"

\* player === 'player' ? 'ai' : 'player'
other(player) == IF player = "player" THEN "ai" ELSE "player"

\* player === 'player' ? this.playerHand : this.aiHand
handOf(player) == IF player = "player" THEN playerHand ELSE aiHand

Range(s) == {s[i] : i \in 1..Len(s)}

\* hand.findIndex(c => c.suit === card.suit && c.rank === card.rank), 1-based;
\* 0 stands for the -1 of a card that is not found.
findIndex(hand, card) ==
  IF \E i \in 1..Len(hand) : hand[i] = card
  THEN CHOOSE i \in 1..Len(hand) :
         /\ hand[i] = card
         /\ \A j \in 1..(i - 1) : hand[j] # card
  ELSE 0

\* A playCard that forgets hand.splice(index, 1).
spliceNothing(hand, index) == hand

\* hand.splice(index, 1)
splice(hand, index) ==
  [i \in 1..(Len(hand) - 1) |-> IF i < index THEN hand[i] ELSE hand[i + 1]]

\* hand.filter(c => c.suit === suit)
filterSuit(hand, suit) == SelectSeq(hand, LAMBDA c : c.suit = suit)

\* The cards dealt to a hand: this.deck.deal(5).
HandSize == 5

\* The trick that scores and ends the round: if (this.currentTrick === 5).
LastTrick == 5

\* this.scoreGoal = 5: the points needed to win the match.
DefaultScoreGoal == 5

\* No redealHand call was made in the round.
noRedeals == [player \in Players |-> 0]

\* The notification modal as the page loads it: hidden, its OK button without
\* a callback.
hiddenNotification == [open |-> FALSE, onOk |-> "none"]

-----------------------------------------------------------------------------
(* The settings and their persistence in localStorage.                      *)

\* The longest text typed into the score-goal input or found in localStorage
\* when the page loads.
MaxLen == 2

\* The characters of those texts.
Chars == {"0", "1", "2", "-", " ", "a"}

\* The strings of at most MaxLen characters; a string is the sequence of its
\* characters.
Texts == UNION {[1..n -> Chars] : n \in 0..MaxLen}

Digits == <<"0", "1", "2", "3", "4", "5", "6", "7", "8", "9">>

isDigit(c) == \E d \in 1..Len(Digits) : Digits[d] = c

digitValue(c) == (CHOOSE d \in 1..Len(Digits) : Digits[d] = c) - 1

\* The NaN of parseInt, as a number that no text of the model parses to.
\* Every comparison with NaN is false in JavaScript: the conditions that
\* compare a parsed value test for NaN first.
NaN == -(10 ^ (MaxLen + 2))

\* parseInt skips the white space in front of the number.
RECURSIVE skipWhiteSpace(_)
skipWhiteSpace(text) ==
  IF text # <<>> /\ text[1] = " " THEN skipWhiteSpace(Tail(text)) ELSE text

\* The value of the decimal digits in front of `text`, after the digits that
\* gave `value`.
RECURSIVE parseDigits(_, _)
parseDigits(text, value) ==
  IF text # <<>> /\ isDigit(text[1])
  THEN parseDigits(Tail(text), 10 * value + digitValue(text[1]))
  ELSE value

\* parseInt(text) in radix 10: white space, an optional sign, the longest
\* run of digits; NaN when no digit stands there.  What follows the digits is
\* ignored.  (No text of the model has the prefix 0x.)
parseInt(text) ==
  LET trimmed == skipWhiteSpace(text)
      signed == trimmed # <<>> /\ trimmed[1] \in {"+", "-"}
      digits == IF signed THEN Tail(trimmed) ELSE trimmed
  IN  IF digits = <<>> \/ ~isDigit(digits[1])
      THEN NaN
      ELSE IF signed /\ trimmed[1] = "-"
      THEN -parseDigits(digits, 0)
      ELSE parseDigits(digits, 0)

\* The decimal digits of a natural number.
RECURSIVE digitsOf(_)
digitsOf(n) ==
  IF n < 10
  THEN <<Digits[n + 1]>>
  ELSE Append(digitsOf(n \div 10), Digits[(n % 10) + 1])

\* Number.prototype.toString of an integer or NaN.
toString(n) ==
  IF n = NaN THEN <<"N", "a", "N">>
  ELSE IF n < 0 THEN <<"-">> \o digitsOf(-n)
  ELSE digitsOf(n)

\* this.aiDifficulty = 'medium', the difficulty the constructor sets.
DefaultDifficulty == "medium"

\* localStorage without the items of the game.  getItem returns null for an
\* item that is not there; null and the empty string take the same branch of
\* if (savedDifficulty) and if (savedGoal), and both are the empty value here.
emptyStorage == [aiDifficulty |-> "", scoreGoal |-> <<>>]

\* GameState.loadSettings on the fields the constructor has just set.
loadSettings(storage) ==
  [aiDifficulty |-> IF storage.aiDifficulty # ""
                    THEN storage.aiDifficulty ELSE DefaultDifficulty,
   scoreGoal |-> IF storage.scoreGoal # <<>>
                 THEN parseInt(storage.scoreGoal) ELSE DefaultScoreGoal]

\* GameState.saveSettings: the items it writes for the two settings.  (The
\* cosmetic card back is written with them; the last statement of the method
\* reads this.soundEnabled, which comes after the items are written.)
saveSettings(difficulty, goal) ==
  [aiDifficulty |-> difficulty, scoreGoal |-> toString(goal)]

-----------------------------------------------------------------------------

\* new GameState() with `storage` in localStorage, and the page before any
\* event: initializeSettings has shown game.scoreGoal in the score-goal input.
newGameState(storage) ==
  /\ deck = initialize
  /\ playerHand = <<>>
  /\ aiHand = <<>>
  /\ playerScore = 0
  /\ aiScore = 0
  /\ currentTrick = 0
  /\ leadCard = null
  /\ followCard = null
  /\ leadPlayer = nullPlayer
  /\ currentPlayer = nullPlayer
  /\ playedCards = <<>>
  /\ trickHistory = <<>>
  /\ gameActive = FALSE
  /\ roundActive = FALSE
  /\ result = noResult
  /\ playLog = <<>>
  /\ offProtocol = FALSE
  /\ deviations = 0
  /\ redeals = noRedeals
  /\ scoreGoal = loadSettings(storage).scoreGoal
  /\ aiDifficulty = loadSettings(storage).aiDifficulty
  /\ localStorage = storage
  /\ scoreGoalInput = toString(loadSettings(storage).scoreGoal)
  /\ timers = <<>>
  /\ notification = hiddenNotification
  /\ offers = <<>>

\* The first visit of the page: localStorage holds no item of the game.
Init == newGameState(emptyStorage)

\* The two deck.deal(5) calls of startNewRound on the shuffled deck, by
\* stream: the player's hand first, the AI's hand second.
firstDeals ==
  [seed \in 0..MaxSeed |->
     LET shuffled == shuffledDecks[seed] IN
     [playerHand |-> dealt(shuffled, HandSize),
      aiHand |-> dealt(afterDeal(shuffled, HandSize), HandSize),
      deck |-> afterDeal(afterDeal(shuffled, HandSize), HandSize)]]

\* A startNewRound that leaves the cards of the table where they are.
startNewRoundKeepsTable(seed) ==
  /\ playerHand' = firstDeals[seed].playerHand
  /\ aiHand' = firstDeals[seed].aiHand
  /\ deck' = firstDeals[seed].deck
  /\ currentTrick' = 1
  /\ playedCards' = <<>>
  /\ trickHistory' = <<>>
  /\ leadPlayer' = "player"
  /\ currentPlayer' = "player"
  /\ gameActive' = TRUE
  /\ roundActive' = TRUE
  /\ result' = noResult
  /\ playLog' = <<>>
  /\ UNCHANGED <<leadCard, followCard>>

\* GameState.startNewRound, the shuffle drawing the random stream `seed`.
startNewRound(seed) ==
  /\ playerHand' = firstDeals[seed].playerHand
  /\ aiHand' = firstDeals[seed].aiHand
  /\ deck' = firstDeals[seed].deck
  /\ currentTrick' = 1
  /\ leadCard' = null
  /\ followCard' = null
  /\ playedCards' = <<>>
  /\ trickHistory' = <<>>
  /\ leadPlayer' = "player"
  /\ currentPlayer' = "player"
  /\ gameActive' = TRUE
  /\ roundActive' = TRUE
  /\ result' = noResult
  /\ playLog' = <<>>

StartNewRound ==
  \E seed \in 0..MaxSeed :
    /\ startNewRound(seed)
    /\ UNCHANGED <<playerScore, aiScore>>

\* GameState.startNewMatch
StartNewMatch ==
  \E seed \in 0..MaxSeed :
    /\ playerScore' = 0
    /\ aiScore' = 0
    /\ startNewRound(seed)

\* A canPlayCard without the check of whose turn it is.
canPlayCardAnyTurn(card, player) ==
  IF leadCard = null
  THEN TRUE
  ELSE IF \E i \in 1..Len(handOf(player)) : handOf(player)[i].suit = leadCard.suit
  THEN card.suit = leadCard.suit
  ELSE TRUE

\* GameState.canPlayCard
canPlayCard(card, player) ==
  IF currentPlayer # player
  THEN FALSE
  ELSE IF leadCard = null
  THEN TRUE
  ELSE IF \E i \in 1..Len(handOf(player)) : handOf(player)[i].suit = leadCard.suit
  THEN card.suit = leadCard.suit
  ELSE TRUE

\* An evaluateTrick that compares the values without looking at the suits.
trickWinnerIgnoresSuit(lead, follow, leader) ==
  IF getValue(lead) > getValue(follow) THEN leader ELSE other(leader)

\* The winner computed by GameState.evaluateTrick for the cards on the table.
trickWinner(lead, follow, leader) ==
  IF follow.suit = lead.suit
  THEN IF getValue(lead) > getValue(follow) THEN leader ELSE other(leader)
  ELSE leader

\* An evaluateTrick that records the lead card in the place of the follow card.
trickRecordLeadTwice(number, lead, follow, leader) ==
  [trickNumber |-> number,
   leadCard |-> lead,
   followCard |-> lead,
   leadPlayer |-> leader,
   winner |-> trickWinner(lead, follow, leader)]

\* An evaluateTrick that advances currentTrick before it pushes the record.
trickRecordNumberedLate(number, lead, follow, leader) ==
  [trickNumber |-> number + 1,
   leadCard |-> lead,
   followCard |-> follow,
   leadPlayer |-> leader,
   winner |-> trickWinner(lead, follow, leader)]

\* The record pushed on trickHistory by evaluateTrick.
trickRecord(number, lead, follow, leader) ==
  [trickNumber |-> number,
   leadCard |-> lead,
   followCard |-> follow,
   leadPlayer |-> leader,
   winner |-> trickWinner(lead, follow, leader)]

\* An evaluateTrick that gives the point to both sides.
awardPointAlways(score, won) == score + 1

\* The if (winner === 'player') playerScore++ else aiScore++ of evaluateTrick,
\* for one of the two scores.
awardPoint(score, won) == IF won THEN score + 1 ELSE score

\* An evaluateTrick that forgets this.currentPlayer = winner.
evaluateTrickKeepsTurn(follow) ==
  LET winner == trickWinner(leadCard, follow, leadPlayer) IN
  /\ trickHistory' =
       Append(trickHistory, trickRecord(currentTrick, leadCard, follow, leadPlayer))
  /\ IF currentTrick = LastTrick
     THEN /\ playerScore' = awardPoint(playerScore, winner = "player")
          /\ aiScore' = awardPoint(aiScore, winner # "player")
          /\ gameActive' = FALSE
          /\ UNCHANGED <<leadPlayer, currentPlayer, currentTrick>>
     ELSE /\ leadPlayer' = winner
          /\ currentTrick' = currentTrick + 1
          /\ UNCHANGED <<currentPlayer, playerScore, aiScore, gameActive>>

\* GameState.evaluateTrick, called by playCard with followCard just set to
\* `follow`.
evaluateTrick(follow) ==
  LET winner == trickWinner(leadCard, follow, leadPlayer) IN
  /\ trickHistory' =
       Append(trickHistory, trickRecord(currentTrick, leadCard, follow, leadPlayer))
  /\ IF currentTrick = LastTrick
     THEN /\ playerScore' = awardPoint(playerScore, winner = "player")
          /\ aiScore' = awardPoint(aiScore, winner # "player")
          /\ gameActive' = FALSE
          /\ UNCHANGED <<leadPlayer, currentPlayer, currentTrick>>
     ELSE /\ leadPlayer' = winner
          /\ currentPlayer' = winner
          /\ currentTrick' = currentTrick + 1
          /\ UNCHANGED <<playerScore, aiScore, gameActive>>

\* The hand of `player` after playCard removed `card` from it.
handAfterPlay(player, card) ==
  IF findIndex(handOf(player), card) # 0
  THEN splice(handOf(player), findIndex(handOf(player), card))
  ELSE handOf(player)

\* A playCard that passes the turn on when it rejects a card.
rejectPlayPassesTurn ==
  /\ result' = "false"
  /\ currentPlayer' = other(currentPlayer)
  /\ UNCHANGED <<deck, playerHand, aiHand, playerScore, aiScore, currentTrick,
                 leadCard, followCard, leadPlayer, playedCards, trickHistory,
                 gameActive, roundActive, playLog>>

\* The early return of playCard: if (!this.canPlayCard(...)) return false.
rejectPlay ==
  /\ result' = "false"
  /\ UNCHANGED <<gameVars, playLog>>

\* GameState.playCard
PlayCard(card, player) ==
  IF ~canPlayCard(card, player)
  THEN rejectPlay
  ELSE /\ playerHand' = IF player = "player" THEN handAfterPlay(player, card)
                        ELSE playerHand
       /\ aiHand' = IF player = "ai" THEN handAfterPlay(player, card) ELSE aiHand
       /\ playedCards' = Append(playedCards, [card |-> card, player |-> player])
       /\ playLog' = Append(playLog, [trickNumber |-> currentTrick,
                                      card |-> card, player |-> player])
       /\ result' = "true"
       /\ IF leadCard = null
          THEN /\ leadCard' = card
               /\ leadPlayer' = player
               /\ currentPlayer' = other(player)
               /\ UNCHANGED <<followCard, trickHistory, playerScore, aiScore,
                              gameActive, currentTrick>>
          ELSE /\ followCard' = card
               /\ evaluateTrick(card)
               /\ UNCHANGED leadCard
       /\ UNCHANGED <<deck, roundActive>>

\* A clearTrick that forgets this.playedCards = [].
ClearTrickKeepsPlayedCards ==
  /\ leadCard' = null
  /\ followCard' = null
  /\ UNCHANGED <<deck, playerHand, aiHand, playerScore, aiScore, currentTrick,
                 leadPlayer, currentPlayer, playedCards, trickHistory,
                 gameActive, roundActive, result, playLog>>

\* GameState.clearTrick
ClearTrick ==
  /\ leadCard' = null
  /\ followCard' = null
  /\ playedCards' = <<>>
  /\ UNCHANGED <<deck, playerHand, aiHand, playerScore, aiScore, currentTrick,
                 leadPlayer, currentPlayer, trickHistory, gameActive,
                 roundActive, result, playLog>>

\* Math.max(...hand.map(card => card.getValue())) of a hand with cards.
RECURSIVE mathMax(_)
mathMax(hand) ==
  IF Len(hand) = 1
  THEN getValue(hand[1])
  ELSE IF getValue(hand[1]) > mathMax(Tail(hand))
  THEN getValue(hand[1])
  ELSE mathMax(Tail(hand))

\* A handQualifiesForRedeal that asks for a highest card below 9.
handQualifiesBelowNine(hand) == hand = <<>> \/ mathMax(hand) < 9

\* GameState.handQualifiesForRedeal; Math.max() of no value is -Infinity.
handQualifiesForRedeal(hand) == hand = <<>> \/ mathMax(hand) <= 9

\* GameState.redealHand
RedealHand(player) ==
  /\ playerHand' = IF player = "player" THEN dealt(deck, HandSize) ELSE playerHand
  /\ aiHand' = IF player = "ai" THEN dealt(deck, HandSize) ELSE aiHand
  /\ deck' = afterDeal(deck, HandSize)
  /\ UNCHANGED <<playerScore, aiScore, currentTrick, leadCard, followCard,
                 leadPlayer, currentPlayer, playedCards, trickHistory,
                 gameActive, roundActive, result, playLog>>

\* GameState.resetScores
ResetScores ==
  /\ playerScore' = 0
  /\ aiScore' = 0
  /\ UNCHANGED <<deck, playerHand, aiHand, currentTrick, leadCard, followCard,
                 leadPlayer, currentPlayer, playedCards, trickHistory,
                 gameActive, roundActive, result, playLog>>

\* A getValidCards that returns the hand whatever was led.
getValidCardsWholeHand(player) == handOf(player)

\* GameState.getValidCards
getValidCards(player) ==
  IF leadCard = null
  THEN handOf(player)
  ELSE IF Len(filterSuit(handOf(player), leadCard.suit)) > 0
  THEN filterSuit(handOf(player), leadCard.suit)
  ELSE handOf(player)

-----------------------------------------------------------------------------
(* AI (ai.js).                                                              *)

\* this.game as the AI reads it: the fields of GameState.
game ==
  [playerHand |-> playerHand, aiHand |-> aiHand, deck |-> deck,
   leadCard |-> leadCard, currentTrick |-> currentTrick,
   trickHistory |-> trickHistory]

\* The JavaScript undefined (an array read outside its indices).
undefined == [suit |-> "undefined", rank |-> "undefined"]

\* The TypeError thrown by reduce on an empty array.
TypeError == [suit |-> "TypeError", rank |-> "TypeError"]

\* The levels of the settings select; any other string takes the default
\* branch of chooseCard.
Difficulties == {"easy", "medium", "hard", "grandmaster"}

\* this.game.getValidCards('ai') on the game g.
validCardsOf(g) ==
  IF g.leadCard = null
  THEN g.aiHand
  ELSE IF Len(filterSuit(g.aiHand, g.leadCard.suit)) > 0
  THEN filterSuit(g.aiHand, g.leadCard.suit)
  ELSE g.aiHand

\* cards.reduce((lowest, card) => card.getValue() < lowest.getValue() ? card
\* : lowest), from the i-th card on.
RECURSIVE reduceLowest(_, _, _)
reduceLowest(cards, i, lowest) ==
  IF i > Len(cards)
  THEN lowest
  ELSE reduceLowest(cards, i + 1,
         IF getValue(cards[i]) < getValue(lowest) THEN cards[i] ELSE lowest)

\* AI.getLowestCard
getLowestCard(cards) ==
  IF cards = <<>> THEN TypeError ELSE reduceLowest(cards, 2, cards[1])

RECURSIVE reduceHighest(_, _, _)
reduceHighest(cards, i, highest) ==
  IF i > Len(cards)
  THEN highest
  ELSE reduceHighest(cards, i + 1,
         IF getValue(cards[i]) > getValue(highest) THEN cards[i] ELSE highest)

\* AI.getHighestCard
getHighestCard(cards) ==
  IF cards = <<>> THEN TypeError ELSE reduceHighest(cards, 2, cards[1])

\* The keys of AI.groupBySuit(cards) in the order of for (let suit in bySuit):
\* the suits in the order of their first card.
RECURSIVE suitKeys(_)
suitKeys(cards) ==
  IF cards = <<>>
  THEN <<>>
  ELSE <<cards[1].suit>> \o
       suitKeys(SelectSeq(Tail(cards), LAMBDA c : c.suit # cards[1].suit))

\* c.getValue() < leadValue / c.getValue() > leadValue filters.
below(cards, value) == SelectSeq(cards, LAMBDA c : getValue(c) < value)

above(cards, value) == SelectSeq(cards, LAMBDA c : getValue(c) > value)

\* AI.updatePlayedCards: the cards of the history and the lead card.
RECURSIVE historyCards(_)
historyCards(history) ==
  IF history = <<>>
  THEN <<>>
  ELSE <<history[1].leadCard, history[1].followCard>> \o
       historyCards(Tail(history))

updatePlayedCards(g) ==
  historyCards(g.trickHistory) \o
    (IF g.leadCard # null THEN <<g.leadCard>> ELSE <<>>)

\* An updateOpponentVoids that looks into the human's hand for the suits it
\* does not hold.
updateOpponentVoidsPeeks(g) ==
  {Suits[i] : i \in {j \in 1..Len(Suits) :
                       \A c \in Range(g.playerHand) : c.suit # Suits[j]}}

\* AI.updateOpponentVoids
updateOpponentVoids(g) ==
  {g.trickHistory[i].leadCard.suit : i \in
     {j \in 1..Len(g.trickHistory) :
        /\ g.trickHistory[j].leadPlayer = "ai"
        /\ g.trickHistory[j].followCard.suit # g.trickHistory[j].leadCard.suit}}

\* AI.chooseBestCardToWin
chooseBestCardToWin(g, validCards, isLeading) ==
  IF isLeading
  THEN getHighestCard(validCards)
  ELSE LET sameSuit == filterSuit(validCards, g.leadCard.suit)
           winningCards == above(sameSuit, getValue(g.leadCard))
       IN  IF Len(sameSuit) > 0
           THEN IF Len(winningCards) > 0
                THEN getLowestCard(winningCards)
                ELSE getLowestCard(sameSuit)
           ELSE getLowestCard(validCards)

\* The number of played cards of the suit of `card` with a greater value.
higherPlayed(g, card) ==
  Len(SelectSeq(updatePlayedCards(g),
                LAMBDA c : c.suit = card.suit /\ getValue(c) > getValue(card)))

\* An estimateWinProbability that looks at the value of the card alone.
estimateWinProbabilityValue(g, card) == getValue(card)

\* AI.estimateWinProbability
estimateWinProbability(g, card) == getValue(card) + higherPlayed(g, card) * 2

\* AI.calculateWinProbability
calculateWinProbability(g, card) ==
  getValue(card) + higherPlayed(g, card) * 3
    + (IF card.suit \in updateOpponentVoids(g) THEN 20 ELSE 0)
    + (IF getValue(card) = 14 THEN 5 ELSE 0)
    + (IF getValue(card) = 13 THEN 3 ELSE 0)

\* The highest card of each suit of validCards, in the order of the keys.
highestBySuit(validCards) ==
  LET keys == suitKeys(validCards) IN
  [i \in 1..Len(keys) |-> getHighestCard(filterSuit(validCards, keys[i]))]

\* The loop of chooseOptimalLeadCard and of chooseBestWinningSuit over the
\* suits from the i-th key on: the highest card of a suit replaces bestCard
\* when its score is greater than bestScore.
RECURSIVE bestOfSuits(_, _, _, _, _)
bestOfSuits(highest, scores, i, bestCard, bestScore) ==
  IF i > Len(highest)
  THEN bestCard
  ELSE IF scores[i] > bestScore
  THEN bestOfSuits(highest, scores, i + 1, highest[i], scores[i])
  ELSE bestOfSuits(highest, scores, i + 1, bestCard, bestScore)

\* AI.chooseOptimalLeadCard
chooseOptimalLeadCard(g, validCards) ==
  LET highest == highestBySuit(validCards)
      scores == [i \in 1..Len(highest) |-> estimateWinProbability(g, highest[i])]
      bestCard == bestOfSuits(highest, scores, 1, null, -1)
  IN  IF bestCard # null THEN bestCard ELSE getHighestCard(validCards)

\* AI.chooseBestWinningSuit
chooseBestWinningSuit(g, validCards) ==
  LET highest == highestBySuit(validCards)
      scores == [i \in 1..Len(highest) |-> calculateWinProbability(g, highest[i])]
      bestCard == bestOfSuits(highest, scores, 1, null, -1)
  IN  IF bestCard # null THEN bestCard ELSE getHighestCard(validCards)

\* A weakest-suit loop that compares with <= and so keeps the last of the
\* suits with the fewest cards.
fewestCardsSuitLast(validCards) ==
  LET keys == suitKeys(validCards)
      count(i) == Len(filterSuit(validCards, keys[i]))
  IN  keys[CHOOSE i \in 1..Len(keys) :
             /\ \A j \in 1..Len(keys) : count(i) <= count(j)
             /\ \A j \in (i + 1)..Len(keys) : count(j) > count(i)]

\* The first suit of the keys of validCards with the fewest cards.
fewestCardsSuit(validCards) ==
  LET keys == suitKeys(validCards)
      count(i) == Len(filterSuit(validCards, keys[i]))
  IN  keys[CHOOSE i \in 1..Len(keys) :
             /\ \A j \in 1..Len(keys) : count(i) <= count(j)
             /\ \A j \in 1..(i - 1) : count(j) > count(i)]

\* AI.chooseStrategicLeadCard
chooseStrategicLeadCard(validCards) ==
  IF validCards # <<>>
  THEN getLowestCard(filterSuit(validCards, fewestCardsSuit(validCards)))
  ELSE getLowestCard(validCards)

\* A chooseStrategicFollowCard that looks for its losing card in the whole
\* hand instead of the cards of the lead suit.
chooseStrategicFollowCardAnySuit(g, validCards) ==
  LET sameSuit == filterSuit(validCards, g.leadCard.suit)
      losingCards == below(g.aiHand, getValue(g.leadCard))
  IN  IF Len(sameSuit) > 0
      THEN IF Len(losingCards) > 0
           THEN getHighestCard(losingCards)
           ELSE getLowestCard(sameSuit)
      ELSE getLowestCard(validCards)

\* A chooseStrategicFollowCard that loses with its lowest card of the lead
\* suit.
chooseStrategicFollowCardLowest(g, validCards) ==
  LET sameSuit == filterSuit(validCards, g.leadCard.suit)
  IN  IF Len(sameSuit) > 0
      THEN getLowestCard(sameSuit)
      ELSE getLowestCard(validCards)

\* AI.chooseStrategicFollowCard
chooseStrategicFollowCard(g, validCards) ==
  LET sameSuit == filterSuit(validCards, g.leadCard.suit)
      losingCards == below(sameSuit, getValue(g.leadCard))
  IN  IF Len(sameSuit) > 0
      THEN IF Len(losingCards) > 0
           THEN getHighestCard(losingCards)
           ELSE getLowestCard(sameSuit)
      ELSE getLowestCard(validCards)

\* AI.chooseCardEasy: the cards that validCards[randomIndex] can be.
chooseCardEasy(g) ==
  IF validCardsOf(g) = <<>> THEN {undefined} ELSE Range(validCardsOf(g))

\* A chooseCardMedium that plays its highest legal card in tricks 1 to 4.
chooseCardMediumHighest(g) ==
  LET validCards == validCardsOf(g)
      isLeading == g.leadCard = null
  IN  IF g.currentTrick = 5
      THEN chooseBestCardToWin(g, validCards, isLeading)
      ELSE getHighestCard(validCards)

\* AI.chooseCardMedium
chooseCardMedium(g) ==
  LET validCards == validCardsOf(g)
      isLeading == g.leadCard = null
      sameSuit == filterSuit(validCards, g.leadCard.suit)
      losingCards == below(sameSuit, getValue(g.leadCard))
  IN  IF g.currentTrick = 5
      THEN chooseBestCardToWin(g, validCards, isLeading)
      ELSE IF isLeading
      THEN getLowestCard(validCards)
      ELSE IF Len(sameSuit) > 0
      THEN IF Len(losingCards) > 0
           THEN getLowestCard(losingCards)
           ELSE getLowestCard(sameSuit)
      ELSE getLowestCard(validCards)

\* AI.chooseCardHard
chooseCardHard(g) ==
  LET validCards == validCardsOf(g)
      isLeading == g.leadCard = null
  IN  IF g.currentTrick = 5
      THEN IF isLeading
           THEN chooseOptimalLeadCard(g, validCards)
           ELSE chooseBestCardToWin(g, validCards, FALSE)
      ELSE IF isLeading
      THEN chooseStrategicLeadCard(validCards)
      ELSE chooseStrategicFollowCard(g, validCards)

\* AI.grandmasterTrick5
grandmasterTrick5(g, validCards, isLeading) ==
  IF isLeading
  THEN LET voidSuitCards ==
             SelectSeq(validCards, LAMBDA c : c.suit \in updateOpponentVoids(g))
       IN  IF Len(voidSuitCards) > 0
           THEN getLowestCard(voidSuitCards)
           ELSE chooseBestWinningSuit(g, validCards)
  ELSE LET sameSuit == filterSuit(validCards, g.leadCard.suit)
           winningCards == above(sameSuit, getValue(g.leadCard))
       IN  IF Len(sameSuit) > 0
           THEN IF Len(winningCards) > 0
                THEN getLowestCard(winningCards)
                ELSE getLowestCard(sameSuit)
           ELSE getLowestCard(validCards)

\* The suits of the hand with two cards or more, in the order of the keys:
\* the multiCardSuits of grandmasterLead.
multiCardSuits(hand) ==
  SelectSeq(suitKeys(hand), LAMBDA suit : Len(filterSuit(hand, suit)) >= 2)

\* The values of validCards in ascending order: [...validCards].sort(...).
RECURSIVE sortedByValue(_)
sortedByValue(cards) ==
  IF cards = <<>>
  THEN <<>>
  ELSE LET lowest == getLowestCard(cards)
           index == findIndex(cards, lowest)
       IN  <<lowest>> \o sortedByValue(splice(cards, index))

\* A grandmasterLead without the singleton rule, leading from its strongest
\* multi-card suit in every trick.
grandmasterLeadStrongest(validCards, hand, trickNumber) ==
  LET multi == multiCardSuits(hand)
      highest(i) == getHighestCard(filterSuit(hand, multi[i]))
      strongest == CHOOSE i \in 1..Len(multi) :
                     /\ \A j \in 1..Len(multi) :
                          getValue(highest(i)) >= getValue(highest(j))
                     /\ \A j \in 1..(i - 1) :
                          getValue(highest(j)) < getValue(highest(i))
  IN  IF Len(multi) > 0
      THEN highest(strongest)
      ELSE getHighestCard(validCards)

\* AI.grandmasterLead
grandmasterLead(validCards, hand, trickNumber) ==
  LET singletons ==
        SelectSeq(suitKeys(validCards), LAMBDA suit : Len(filterSuit(hand, suit)) = 1)
      multi == multiCardSuits(hand)
      highest(i) == getHighestCard(filterSuit(hand, multi[i]))
      weakest == CHOOSE i \in 1..Len(multi) :
                   /\ \A j \in 1..Len(multi) :
                        getValue(highest(i)) <= getValue(highest(j))
                   /\ \A j \in 1..(i - 1) :
                        getValue(highest(j)) > getValue(highest(i))
      strongest == CHOOSE i \in 1..Len(multi) :
                     /\ \A j \in 1..Len(multi) :
                          getValue(highest(i)) >= getValue(highest(j))
                     /\ \A j \in 1..(i - 1) :
                          getValue(highest(j)) < getValue(highest(i))
      sorted == sortedByValue(validCards)
      aggressionIndex == (trickNumber * (Len(sorted) - 1)) \div 5
  IN  IF Len(singletons) > 0
      THEN filterSuit(hand, singletons[1])[1]
      ELSE IF Len(multi) > 0
      THEN IF trickNumber <= 2 THEN highest(weakest) ELSE highest(strongest)
      ELSE IF sorted = <<>>
      THEN undefined
      ELSE sorted[Min(aggressionIndex, Len(sorted) - 1) + 1]

\* A grandmasterFollow that saves its winning cards: it plays the lowest card
\* of the lead suit.
grandmasterFollowDucks(g, validCards) ==
  LET sameSuit == filterSuit(validCards, g.leadCard.suit)
  IN  IF Len(sameSuit) > 0
      THEN getLowestCard(sameSuit)
      ELSE getLowestCard(validCards)

\* AI.grandmasterFollow
grandmasterFollow(g, validCards) ==
  LET sameSuit == filterSuit(validCards, g.leadCard.suit)
      winningCards == above(sameSuit, getValue(g.leadCard))
  IN  IF Len(sameSuit) > 0
      THEN IF Len(winningCards) > 0
           THEN getLowestCard(winningCards)
           ELSE getHighestCard(sameSuit)
      ELSE getLowestCard(validCards)

\* AI.chooseCardGrandmaster
chooseCardGrandmaster(g) ==
  LET validCards == validCardsOf(g)
      isLeading == g.leadCard = null
  IN  IF g.currentTrick = 5
      THEN grandmasterTrick5(g, validCards, isLeading)
      ELSE IF isLeading
      THEN grandmasterLead(validCards, g.aiHand, g.currentTrick)
      ELSE grandmasterFollow(g, validCards)

\* AI.chooseCard: the cards that the call can return for a difficulty.
chooseCard(g, difficulty) ==
  CASE difficulty = "easy" -> chooseCardEasy(g)
    [] difficulty = "medium" -> {chooseCardMedium(g)}
    [] difficulty = "hard" -> {chooseCardHard(g)}
    [] difficulty = "grandmaster" -> {chooseCardGrandmaster(g)}
    [] OTHER -> {chooseCardMedium(g)}

-----------------------------------------------------------------------------
(* The callers.                                                             *)

\* The cards a caller passes to playCard for `player`: the cards of the hand,
\* legal or not, and the card on top of the remaining deck, which is in no
\* hand.
CardInputs(player) ==
  Range(handOf(player)) \cup {deck[i] : i \in 1..Min(1, Len(deck))}

\* The interface (ui.js) plays a card of the player's own hand, on a table
\* that holds no resolved trick.  A playCard call is off-protocol when it is
\* accepted with a card from elsewhere or with a resolved trick on the table.
OffProtocolPlay(card, player) ==
  /\ canPlayCard(card, player)
  /\ \/ findIndex(handOf(player), card) = 0
     \/ followCard # null

\* The interface calls clearTrick with a resolved trick on the table; with an
\* empty table the call changes nothing.
OffProtocolClear == leadCard # null /\ followCard = null

\* The default line of play: the player on turn plays the first legal card
\* of the hand.
DefaultPlay(card, player) ==
  /\ canPlayCard(card, player)
  /\ Len(getValidCards(player)) > 0
  /\ card = getValidCards(player)[1]

\* A playCard call that leaves the default line of play: a rejected call,
\* another card than the first legal one, or an off-protocol call.
Deviation(card, player) ==
  OffProtocolPlay(card, player) \/ ~DefaultPlay(card, player)

\* A new round resets the two records of the callers' conduct.
NewRoundConduct ==
  offProtocol' = FALSE /\ deviations' = 0 /\ redeals' = noRedeals

\* Any sequence of calls of the methods of GameState.
Next ==
  \/ /\ StartNewMatch
     /\ NewRoundConduct
     /\ UNCHANGED uiVars
  \/ /\ StartNewRound
     /\ NewRoundConduct
     /\ UNCHANGED uiVars
  \/ \E player \in Players : \E card \in CardInputs(player) :
       /\ playerScore + aiScore < MaxPoints
       /\ Deviation(card, player) => deviations < MaxDeviations
       /\ PlayCard(card, player)
       /\ offProtocol' = (offProtocol \/ OffProtocolPlay(card, player))
       /\ deviations' = IF Deviation(card, player)
                        THEN deviations + 1 ELSE deviations
       /\ UNCHANGED <<redeals, uiVars>>
  \/ /\ OffProtocolClear => deviations < MaxDeviations
     /\ ClearTrick
     /\ offProtocol' = (offProtocol \/ OffProtocolClear)
     /\ deviations' = IF OffProtocolClear THEN deviations + 1 ELSE deviations
     /\ UNCHANGED <<redeals, uiVars>>
  \/ \E player \in Players :
       /\ roundActive
       /\ deviations < MaxDeviations
       /\ RedealHand(player)
       /\ offProtocol' = TRUE
       /\ deviations' = deviations + 1
       /\ redeals' = [redeals EXCEPT ![player] = @ + 1]
       /\ UNCHANGED uiVars
  \/ /\ ResetScores
     /\ UNCHANGED <<offProtocol, deviations, redeals, uiVars>>

Spec == Init /\ [][Next]_vars

-----------------------------------------------------------------------------
(* The interface (ui.js): the handlers of the page's events and timers.     *)

\* The delays of the setTimeout calls, in milliseconds.
\* handlePlayerCardClick: setTimeout(() => { game.playCard ... }, 300)
PlayDelay == 300
\* startNewGame: setTimeout(async () => { await handleRedealOffers() ... }, 500)
RedealOfferDelay == 500
\* setTimeout(handleAITurn, 1000)
AITurnDelay == 1000
\* handleRedealOffers: await new Promise(resolve => setTimeout(resolve, 1500))
RedealWait == 1500
\* handleTrickComplete: setTimeout(() => { game.clearTrick() ... }, 2000)
TrickDisplayDelay == 2000
\* handleGameOver: setTimeout(() => { showNotification ... }, 2000)
GameOverDelay == 2000

\* The values typed into the score-goal input during a match.
GoalInputs == {toString(n) : n \in 0..MaxPoints}

\* A pending callback: its handler, the time left until it is due, and what
\* its closure holds (the clicked card, the aiQualifies of handleRedealOffers).
\* A click is handled at the time of the event before it: time passes only
\* while the page waits for the next callback.
timer(handler, delay, card, aiQualifies) ==
  [handler |-> handler, due |-> delay, card |-> card, aiQualifies |-> aiQualifies]

\* The pending callbacks after `delay` milliseconds have passed.
elapse(pending, delay) ==
  [i \in 1..Len(pending) |-> [pending[i] EXCEPT !.due = @ - delay]]

\* The time until the first pending callback is due.
minDue(pending) ==
  CHOOSE due \in {pending[i].due : i \in 1..Len(pending)} :
    \A i \in 1..Len(pending) : due <= pending[i].due

\* The callback the event loop runs next: the first one due, the one set
\* first among those due at the same time.
nextTimer ==
  CHOOSE i \in 1..Len(timers) :
    /\ timers[i].due = minDue(timers)
    /\ \A j \in 1..(i - 1) : timers[j].due > minDue(timers)

\* The callback that runs next is `handler`.
fires(handler) == timers # <<>> /\ timers[nextTimer].handler = handler

\* The pending callbacks once the next one has run.
fired ==
  elapse([i \in 1..(Len(timers) - 1) |->
            IF i < nextTimer THEN timers[i] ELSE timers[i + 1]],
         minDue(timers))

\* setTimeout(handleAITurn, 1000)
aiTurnTimer == timer("handleAITurn", AITurnDelay, null, FALSE)

\* The setTimeout of handleTrickComplete.
clearTrickTimer == timer("clearTrick", TrickDisplayDelay, null, FALSE)

\* The setTimeout of handleGameOver.
gameOverTimer == timer("handleGameOver", GameOverDelay, null, FALSE)

\* The wait of handleRedealOffers before game.redealHand('ai').
aiRedealTimer == timer("aiRedeal", RedealWait, null, FALSE)

\* A call of the interface off the default line costs one deviation.
uiConduct(deviates) ==
  /\ deviates => deviations < MaxDeviations
  /\ deviations' = IF deviates THEN deviations + 1 ELSE deviations

\* Whether a redealHand call comes after a card of the round was played.
lateRedeal == trickHistory # <<>> \/ leadCard # null

\* startNewGame, the handler of the New Game button.  While the notification
\* modal is shown it covers the page, and no other element takes a click.
startNewGame ==
  /\ ~notification.open
  /\ timers' = Append(timers,
                      timer("handleRedealOffers", RedealOfferDelay, null, FALSE))
  /\ StartNewMatch
  /\ offProtocol' = FALSE
  /\ redeals' = noRedeals
  /\ UNCHANGED <<settings, notification, offers>>

\* The New Game button is pressed; after the first game of the page this is
\* off the default line.
ClickNewGame ==
  /\ startNewGame
  /\ uiConduct(roundActive)

\* restartRound, the handler of the Restart button, with confirm() answered
\* OK.
ClickRestart ==
  /\ uiConduct(TRUE)
  /\ IF ~gameActive
     THEN startNewGame
     ELSE /\ ~notification.open
          /\ StartNewRound
          /\ offProtocol' = FALSE
          /\ redeals' = noRedeals
          /\ UNCHANGED uiVars

\* A change handler of the score-goal input without the upper limit.
scoreGoalAcceptedAboveTwenty(value) == value # NaN /\ value >= 1

\* if (value >= 1 && value <= 20) in the change handler of the score-goal
\* input.
scoreGoalAccepted(value) == value # NaN /\ value >= 1 /\ value <= 20

\* The settings after the change handler of the score-goal input has run
\* with `text` in the input.
scoreGoalChanged(text) ==
  LET value == parseInt(text) IN
  IF scoreGoalAccepted(value)
  THEN [scoreGoal |-> value,
        localStorage |-> saveSettings(aiDifficulty, value),
        scoreGoalInput |-> text]
  ELSE [scoreGoal |-> scoreGoal,
        localStorage |-> localStorage,
        scoreGoalInput |-> toString(scoreGoal)]

\* The change handler of the score-goal input.
changeScoreGoal(text) ==
  /\ ~notification.open
  /\ uiConduct(roundActive)
  /\ scoreGoal' = scoreGoalChanged(text).scoreGoal
  /\ localStorage' = scoreGoalChanged(text).localStorage
  /\ scoreGoalInput' = scoreGoalChanged(text).scoreGoalInput
  /\ UNCHANGED <<gameVars, result, playLog, offProtocol, redeals, aiDifficulty,
                 timers, notification, offers>>

\* The score goal is changed in the settings of the page.
ChangeScoreGoal == \E text \in GoalInputs : changeScoreGoal(text)

\* The callback of startNewGame's timer: handleRedealOffers up to its first
\* await.
HandleRedealOffers ==
  /\ fires("handleRedealOffers")
  /\ IF handQualifiesForRedeal(playerHand)
     THEN /\ notification' = [notification EXCEPT !.open = TRUE]
          /\ offers' = Append(offers, handQualifiesForRedeal(aiHand))
          /\ timers' = fired
     ELSE /\ timers' = IF handQualifiesForRedeal(aiHand)
                       THEN Append(fired, aiRedealTimer) ELSE fired
          /\ UNCHANGED <<notification, offers>>
  /\ UNCHANGED <<gameVars, result, playLog, offProtocol, deviations, redeals,
                 settings>>

\* The offers left when offer i is answered.
answered(i) ==
  [j \in 1..(Len(offers) - 1) |-> IF j < i THEN offers[j] ELSE offers[j + 1]]

\* 'Yes, Redeal' is pressed: game.redealHand('player'), the 'Cards Redealt'
\* notification and the wait of 1500 ms.
ClickYes ==
  /\ notification.open
  /\ \E i \in 1..Len(offers) :
       /\ offers' = answered(i)
       /\ timers' = Append(timers,
                           timer("afterPlayerRedeal", RedealWait, null, offers[i]))
  /\ RedealHand("player")
  /\ redeals' = [redeals EXCEPT !["player"] = @ + 1]
  /\ offProtocol' = (offProtocol \/ lateRedeal)
  /\ notification' = [open |-> TRUE, onOk |-> "none"]
  /\ UNCHANGED <<deviations, settings>>

\* 'No, Keep Hand' is pressed: handleRedealOffers goes on to the AI's part.
ClickNo ==
  /\ notification.open
  /\ \E i \in 1..Len(offers) :
       /\ offers' = answered(i)
       /\ timers' = IF offers[i] THEN Append(timers, aiRedealTimer) ELSE timers
  /\ notification' = [notification EXCEPT !.open = FALSE]
  /\ UNCHANGED <<gameVars, result, playLog, offProtocol, deviations, redeals,
                 settings>>

\* The wait after the player's redeal is over: handleRedealOffers goes on to
\* the AI's part.
AfterPlayerRedeal ==
  /\ fires("afterPlayerRedeal")
  /\ timers' = IF timers[nextTimer].aiQualifies
               THEN Append(fired, aiRedealTimer) ELSE fired
  /\ UNCHANGED <<gameVars, result, playLog, offProtocol, deviations, redeals,
                 settings, notification, offers>>

\* The AI's part of handleRedealOffers after its wait: game.redealHand('ai')
\* and the 'AI Redealt' notification.  The wait that follows ends in
\* updateMessage alone.
AIRedeal ==
  /\ fires("aiRedeal")
  /\ timers' = fired
  /\ RedealHand("ai")
  /\ redeals' = [redeals EXCEPT !["ai"] = @ + 1]
  /\ offProtocol' = (offProtocol \/ lateRedeal)
  /\ notification' = [open |-> TRUE, onOk |-> "none"]
  /\ UNCHANGED <<deviations, settings, offers>>

\* handlePlayerCardClick on a card of the rendered hand, up to its setTimeout.
\* Off the default line: a click while a callback is pending, and any card
\* but the first legal one.
ClickCard ==
  /\ ~notification.open
  /\ playerScore + aiScore < MaxPoints
  /\ gameActive
  /\ currentPlayer = "player"
  /\ \E card \in Range(playerHand) :
       /\ canPlayCard(card, "player")
       /\ uiConduct(timers # <<>> \/ card # getValidCards("player")[1])
       /\ timers' = Append(timers, timer("playCard", PlayDelay, card, FALSE))
  /\ UNCHANGED <<gameVars, result, playLog, offProtocol, redeals, settings,
                 notification, offers>>

\* The callback of handlePlayerCardClick's timer: game.playCard(card,
\* 'player') and what follows it.
PlayClickedCard ==
  /\ fires("playCard")
  /\ PlayCard(timers[nextTimer].card, "player")
  /\ timers' = IF result' = "false" THEN fired
               ELSE IF leadCard' # null /\ followCard' # null
               THEN Append(fired, clearTrickTimer)
               ELSE IF currentPlayer' = "ai"
               THEN Append(fired, aiTurnTimer)
               ELSE fired
  /\ offProtocol' = (offProtocol \/ OffProtocolPlay(timers[nextTimer].card, "player"))
  /\ UNCHANGED <<deviations, redeals, settings, notification, offers>>

\* handleAITurn.  A chooseCard that throws ends the callback.
HandleAITurn ==
  /\ fires("handleAITurn")
  /\ IF ~gameActive \/ currentPlayer # "ai"
     THEN /\ timers' = fired
          /\ UNCHANGED <<gameVars, result, playLog, offProtocol>>
     ELSE \E chosenCard \in chooseCard(game, aiDifficulty) :
            IF chosenCard \in {undefined, TypeError}
            THEN /\ timers' = fired
                 /\ UNCHANGED <<gameVars, result, playLog, offProtocol>>
            ELSE /\ PlayCard(chosenCard, "ai")
                 /\ offProtocol' = (offProtocol \/ OffProtocolPlay(chosenCard, "ai"))
                 /\ timers' = IF ~gameActive'
                              THEN Append(fired, gameOverTimer)
                              ELSE IF leadCard' # null /\ followCard' # null
                              THEN Append(fired, clearTrickTimer)
                              ELSE IF currentPlayer' = "ai"
                              THEN Append(fired, aiTurnTimer)
                              ELSE fired
  /\ UNCHANGED <<deviations, redeals, settings, notification, offers>>

\* The callback of handleTrickComplete's timer: game.clearTrick() and what
\* follows it.
HandleTrickComplete ==
  /\ fires("clearTrick")
  /\ ClearTrick
  /\ timers' = IF ~gameActive
               THEN Append(fired, gameOverTimer)
               ELSE IF currentPlayer = "ai"
               THEN Append(fired, aiTurnTimer)
               ELSE fired
  /\ offProtocol' = (offProtocol \/ OffProtocolClear)
  /\ UNCHANGED <<deviations, redeals, settings, notification, offers>>

\* A handleGameOver that forgets the AI's score.
onGameOverOkPlayerOnly ==
  IF playerScore >= scoreGoal THEN "startNewMatch" ELSE "startNewRound"

\* What the OK button of handleGameOver's notification runs.
onGameOverOk ==
  IF playerScore >= scoreGoal THEN "startNewMatch"
  ELSE IF aiScore >= scoreGoal THEN "startNewMatch"
  ELSE "startNewRound"

\* The callback of handleGameOver's timer: the notification of the match or
\* of the round.
HandleGameOver ==
  /\ fires("handleGameOver")
  /\ timers' = fired
  /\ notification' = [open |-> TRUE, onOk |-> onGameOverOk]
  /\ UNCHANGED <<gameVars, result, playLog, offProtocol, deviations, redeals,
                 settings, offers>>

\* The OK button of the notification is pressed; it is shown in the place of
\* the Yes and No buttons.
ClickOk ==
  /\ notification.open
  /\ offers = <<>>
  /\ notification' = [notification EXCEPT !.open = FALSE]
  /\ IF notification.onOk = "startNewMatch"
     THEN StartNewMatch /\ offProtocol' = FALSE /\ redeals' = noRedeals
     ELSE IF notification.onOk = "startNewRound"
     THEN StartNewRound /\ offProtocol' = FALSE /\ redeals' = noRedeals
     ELSE UNCHANGED <<gameVars, result, playLog, offProtocol, redeals>>
  /\ UNCHANGED <<deviations, settings, timers, offers>>

\* The events of the page: the clicks and the callbacks that are due.
UINext ==
  \/ ClickNewGame
  \/ ClickRestart
  \/ ChangeScoreGoal
  \/ HandleRedealOffers
  \/ ClickYes
  \/ ClickNo
  \/ AfterPlayerRedeal
  \/ AIRedeal
  \/ ClickCard
  \/ PlayClickedCard
  \/ HandleAITurn
  \/ HandleTrickComplete
  \/ HandleGameOver
  \/ ClickOk

UISpec == Init /\ [][UINext]_vars

-----------------------------------------------------------------------------
(* A round of the human against Grandmaster.                                *)

\* The human plays a card the interface lets through: handlePlayerCardClick
\* and the callback of its timer, on a table without a resolved trick.
HumanPlays ==
  /\ gameActive
  /\ currentPlayer = "player"
  /\ followCard = null
  /\ \E card \in Range(getValidCards("player")) : PlayCard(card, "player")
  /\ UNCHANGED <<offProtocol, deviations, redeals, uiVars>>

\* handleAITurn with game.aiDifficulty set to 'grandmaster'.
GrandmasterPlays ==
  /\ gameActive
  /\ currentPlayer = "ai"
  /\ followCard = null
  /\ aiHand # <<>>
  /\ PlayCard(chooseCardGrandmaster(game), "ai")
  /\ UNCHANGED <<offProtocol, deviations, redeals, uiVars>>

\* The callback of handleTrickComplete's timer clears the resolved trick.
TableCleared ==
  /\ followCard # null
  /\ ClearTrick
  /\ UNCHANGED <<offProtocol, deviations, redeals, uiVars>>

\* game.redealHand, which handleRedealOffers calls after its waits and which
\* has no guard of its own; each call is off the default line.
HandRedealt ==
  \E player \in Players :
    /\ roundActive
    /\ deviations < MaxDeviations
    /\ RedealHand(player)
    /\ offProtocol' = (offProtocol \/ lateRedeal)
    /\ deviations' = deviations + 1
    /\ redeals' = [redeals EXCEPT ![player] = @ + 1]
    /\ UNCHANGED uiVars

GrandmasterNext ==
  \/ /\ StartNewMatch
     /\ NewRoundConduct
     /\ UNCHANGED uiVars
  \/ HumanPlays
  \/ GrandmasterPlays
  \/ TableCleared
  \/ HandRedealt

GrandmasterSpec == Init /\ [][GrandmasterNext]_vars

-----------------------------------------------------------------------------
(* The settings across visits of the page.                                  *)

\* The difficulty items found in localStorage when the page loads: none, a
\* level of the select, or another string.
StoredDifficulties == Difficulties \cup {"", "expert"}

\* What localStorage holds when the page loads.
Storages == [aiDifficulty : StoredDifficulties, scoreGoal : Texts]

\* The page is loaded with any items in localStorage.
SettingsInit == \E storage \in Storages : newGameState(storage)

\* The change handler of the difficulty select.
ChangeDifficulty ==
  /\ ~notification.open
  /\ \E level \in Difficulties :
       /\ aiDifficulty' = level
       /\ localStorage' = saveSettings(level, scoreGoal)
  /\ UNCHANGED <<gameVars, result, playLog, offProtocol, deviations, redeals,
                 scoreGoal, scoreGoalInput, timers, notification, offers>>

\* Any text is typed into the score-goal input.
TypeScoreGoal == \E text \in Texts : changeScoreGoal(text)

\* The page is loaded again before a game was started: the constructor sets
\* the fields as they are and loadSettings reads the items again.
LoadPage ==
  /\ ~roundActive
  /\ scoreGoal' = loadSettings(localStorage).scoreGoal
  /\ aiDifficulty' = loadSettings(localStorage).aiDifficulty
  /\ scoreGoalInput' = toString(loadSettings(localStorage).scoreGoal)
  /\ UNCHANGED <<gameVars, result, playLog, offProtocol, deviations, redeals,
                 localStorage, timers, notification, offers>>

SettingsNext ==
  \/ ChangeDifficulty
  \/ TypeScoreGoal
  \/ LoadPage

SettingsSpec == SettingsInit /\ [][SettingsNext]_vars

-----------------------------------------------------------------------------
(* The interface with its scheduling: the event loop runs every callback    *)
(* that is due, and the human keeps the play going.                         *)

\* The pending callbacks of `handler`.
pending(handler) == {i \in 1..Len(timers) : timers[i].handler = handler}

\* A callback set with setTimeout runs once its delay is over; the human
\* clicks the first legal card when the turn is theirs and nothing is
\* pending, and answers the redeal offer and the notification shown.
UIFairness ==
  /\ WF_vars(HandleRedealOffers)
  /\ WF_vars(AfterPlayerRedeal)
  /\ WF_vars(AIRedeal)
  /\ WF_vars(PlayClickedCard)
  /\ WF_vars(HandleAITurn)
  /\ WF_vars(HandleTrickComplete)
  /\ WF_vars(HandleGameOver)
  /\ WF_vars(ClickCard /\ deviations' = deviations)
  /\ WF_vars(ClickYes \/ ClickNo)
  /\ WF_vars(ClickOk)

UILiveSpec == Init /\ [][UINext]_vars /\ UIFairness

-----------------------------------------------------------------------------
(* Trick 5 on any hand: the AI's choice as a function of its cards, the     *)
(* lead card and the cards played, reachable in a round or not.             *)

\* The longest AI hand tried.
MaxHand == 3

\* The cards the hands and the lead card are drawn from: three suits, two
\* cards of one value.
trick5Cards ==
  {Card("hearts", "4"), Card("hearts", "9"), Card("hearts", "king"),
   Card("spades", "9"), Card("spades", "queen"), Card("clubs", "2")}

\* The AI hands: the cards in any order, no card twice.
trick5Hands ==
  {hand \in UNION {[1..n -> trick5Cards] : n \in 1..MaxHand} :
     \A i, j \in 1..Len(hand) : i < j => hand[i] # hand[j]}

\* The tricks resolved before, in which higher hearts and spades went.
trick5Histories ==
  LET first == trickRecord(1, Card("hearts", "ace"), Card("diamonds", "2"),
                           "player")
      second == trickRecord(2, Card("spades", "king"), Card("spades", "ace"),
                            "ai")
  IN  {<<>>, <<first>>, <<second>>, <<first, second>>}

\* A game at trick 5 with the AI on turn: leading, or answering a lead of the
\* human.
Trick5Init ==
  \E hand \in trick5Hands :
    \E lead \in {null} \cup (trick5Cards \ Range(hand)) :
      \E history \in trick5Histories :
        \E difficulty \in Difficulties :
          LET rest == (trick5Cards \ Range(hand)) \ {lead} IN
          /\ deck = <<>>
          /\ playerHand = IF rest = {} THEN <<>> ELSE <<CHOOSE c \in rest : TRUE>>
          /\ aiHand = hand
          /\ playerScore = 0
          /\ aiScore = 0
          /\ currentTrick = LastTrick
          /\ leadCard = lead
          /\ followCard = null
          /\ leadPlayer = IF lead = null THEN "ai" ELSE "player"
          /\ currentPlayer = "ai"
          /\ playedCards = IF lead = null THEN <<>>
                           ELSE <<[card |-> lead, player |-> "player"]>>
          /\ trickHistory = history
          /\ gameActive = TRUE
          /\ roundActive = TRUE
          /\ result = noResult
          /\ playLog = <<>>
          /\ offProtocol = FALSE
          /\ deviations = 0
          /\ redeals = noRedeals
          /\ scoreGoal = DefaultScoreGoal
          /\ aiDifficulty = difficulty
          /\ localStorage = emptyStorage
          /\ scoreGoalInput = toString(DefaultScoreGoal)
          /\ timers = <<>>
          /\ notification = hiddenNotification
          /\ offers = <<>>

\* handleAITurn: the AI plays the card chooseCard returns.
Trick5AIPlays ==
  /\ gameActive
  /\ currentPlayer = "ai"
  /\ \E chosenCard \in chooseCard(game, aiDifficulty) :
       PlayCard(chosenCard, "ai")
  /\ UNCHANGED <<offProtocol, deviations, redeals, uiVars>>

\* The human answers the AI's lead with the card they hold.
Trick5HumanFollows ==
  /\ gameActive
  /\ currentPlayer = "player"
  /\ leadCard # null
  /\ playerHand # <<>>
  /\ PlayCard(playerHand[1], "player")
  /\ UNCHANGED <<offProtocol, deviations, redeals, uiVars>>

Trick5Next == Trick5AIPlays \/ Trick5HumanFollows

Trick5Spec == Trick5Init /\ [][Trick5Next]_vars

-----------------------------------------------------------------------------
(* Properties.                                                              *)

\* The 52 cards.
Cards == Range(initialize)

\* The step appends a record to trickHistory: a trick resolves.
Resolves == Len(trickHistory') = Len(trickHistory) + 1

\* 1 while a lead card is on the table in a trick that is not yet resolved.
inFlight == IF leadCard # null /\ followCard = null THEN 1 ELSE 0

\* C1.  Card conservation: in a round whose calls keep to the protocol
\* (cards of the actor's hand, clearTrick after each resolved trick and before
\* the next play, no redeal), the two hands, twice the resolved tricks and
\* the card in flight add up to 10; and when the round has ended there are
\* exactly 5 resolved tricks and both hands are empty.
C1_CardConservation ==
  (roundActive /\ ~offProtocol) =>
    /\ Len(playerHand) + Len(aiHand) + 2 * Len(trickHistory) + inFlight = 10
    /\ ~gameActive =>
         /\ Len(trickHistory) = 5
         /\ playerHand = <<>>
         /\ aiHand = <<>>

\* A round played to its end within the protocol.
C1_Witness ==
  /\ roundActive
  /\ ~offProtocol
  /\ ~gameActive
  /\ Len(trickHistory) = 5

\* The cards of a hand that have the suit of the lead card.
ofLeadSuit(player) == {c \in Range(handOf(player)) : c.suit = leadCard.suit}

\* C2.  Follow-suit legality: with a lead card on the table getValidCards(p)
\* is exactly the cards of p's hand of the lead suit when there are any and
\* the whole hand otherwise; with no lead card it is the whole hand.
C2_FollowSuit ==
  \A p \in Players :
    Range(getValidCards(p)) =
      IF leadCard # null /\ ofLeadSuit(p) # {}
      THEN ofLeadSuit(p)
      ELSE Range(handOf(p))

\* A follower who holds cards of the lead suit and cards of other suits.
C2_Witness ==
  /\ leadCard # null
  /\ followCard = null
  /\ ofLeadSuit(currentPlayer) # {}
  /\ ofLeadSuit(currentPlayer) # Range(handOf(currentPlayer))
  /\ Range(getValidCards(currentPlayer)) = ofLeadSuit(currentPlayer)

\* The value the rules give a rank: its place in 2 < 3 < ... < king < ace.
rankValue(rank) == 1 + CHOOSE i \in 1..Len(Ranks) : Ranks[i] = rank

\* C3.  Trick winner: every record of trickHistory has winner = leadPlayer when
\* the follow card is of another suit than the lead card, and otherwise the
\* player of the card with the greater value, the values being 2 < 3 < ... <
\* 10 < jack (11) < queen (12) < king (13) < ace (14).
C3_TrickWinner ==
  /\ \A c \in Cards : getValue(c) = rankValue(c.rank)
  /\ getValue(Card("spades", "ace")) = 14
  /\ \A i \in 1..Len(trickHistory) :
       LET r == trickHistory[i] IN
       /\ r.followCard.suit # r.leadCard.suit => r.winner = r.leadPlayer
       /\ (/\ r.followCard.suit = r.leadCard.suit
           /\ rankValue(r.leadCard.rank) > rankValue(r.followCard.rank))
            => r.winner = r.leadPlayer
       /\ (/\ r.followCard.suit = r.leadCard.suit
           /\ rankValue(r.followCard.rank) > rankValue(r.leadCard.rank))
            => r.winner = other(r.leadPlayer)

\* A round with a trick won by the follower and a trick in which an off-suit
\* follow card of greater value lost to the lead.
C3_Witness ==
  /\ \E i \in 1..Len(trickHistory) :
       /\ trickHistory[i].followCard.suit = trickHistory[i].leadCard.suit
       /\ trickHistory[i].winner = other(trickHistory[i].leadPlayer)
  /\ \E i \in 1..Len(trickHistory) :
       /\ trickHistory[i].followCard.suit # trickHistory[i].leadCard.suit
       /\ getValue(trickHistory[i].followCard) > getValue(trickHistory[i].leadCard)
       /\ trickHistory[i].winner = trickHistory[i].leadPlayer

\* The record that the step appends to trickHistory.
resolved == trickHistory'[Len(trickHistory')]

\* C4.  Only trick 5 scores: a step that resolves trick k in 1..4 leaves both
\* scores unchanged; a step that resolves trick 5 adds exactly 1 to the score
\* of that trick's winner and leaves the other score unchanged; and no other
\* step raises a score.
C4_OnlyTrick5Scores ==
  [][/\ Resolves =>
          /\ resolved.trickNumber = currentTrick
          /\ currentTrick \in 1..5
          /\ currentTrick \in 1..4 =>
               playerScore' = playerScore /\ aiScore' = aiScore
          /\ (currentTrick = 5 /\ resolved.winner = "player") =>
               playerScore' = playerScore + 1 /\ aiScore' = aiScore
          /\ (currentTrick = 5 /\ resolved.winner = "ai") =>
               playerScore' = playerScore /\ aiScore' = aiScore + 1
     /\ (playerScore' > playerScore \/ aiScore' > aiScore) =>
          Resolves /\ currentTrick = 5
    ]_vars

\* Trick 5 has resolved in favour of the AI, which has its point.
C4_Witness ==
  /\ Len(trickHistory) = 5
  /\ trickHistory[5].trickNumber = 5
  /\ trickHistory[5].winner = "ai"
  /\ aiScore = 1
  /\ playerScore = 0

\* C5.  Out-of-turn plays fail closed: in every state, also before the first
\* round when currentPlayer is null, canPlayCard(card, p) is false for every
\* card when p is not currentPlayer; a playCard call of such a p returns false
\* and changes nothing; and never can both players play a card.
C5_OutOfTurn ==
  /\ [](\A p \in Players : \A c \in Cards :
          p # currentPlayer => ~canPlayCard(c, p))
  /\ [](~((\E c1 \in Cards : canPlayCard(c1, "player")) /\
           (\E c2 \in Cards : canPlayCard(c2, "ai"))))
  /\ [][\A p \in Players : \A c \in CardInputs(p) :
          (p # currentPlayer /\ PlayCard(c, p)) =>
            (result' = "false" /\ UNCHANGED gameVars)
       ]_vars

\* A call was rejected while no lead card was on the table of an active
\* round: the leader may play any card, so the caller was out of turn.
C5_Witness ==
  /\ gameActive
  /\ leadCard = null
  /\ result = "false"

\* C6, as claimed.  canPlayCard(card, p) is false for every card that is not
\* in p's hand.
C6_AsClaimed ==
  \A p \in Players : \A c \in Cards :
    c \notin Range(handOf(p)) => ~canPlayCard(c, p)

\* The records of trickHistory are numbered 1, 2, ... in order.
numberedInOrder(history) ==
  \A i \in 1..Len(history) : history[i].trickNumber = i

\* C7.  Round progression: in a round currentTrick starts at 1, changes only
\* by +1 and only in the step that resolves a trick 1..4, and never exceeds
\* 5; while the round is active the i-th record of trickHistory has
\* trickNumber i and there are currentTrick - 1 of them; the round ends
\* (gameActive becomes false) in the step that resolves trick 5, with five
\* records numbered 1..5, and in no other step.
C7_RoundProgression ==
  /\ [](roundActive => currentTrick \in 1..5)
  /\ [](gameActive =>
          /\ numberedInOrder(trickHistory)
          /\ Len(trickHistory) = currentTrick - 1)
  /\ [][/\ currentTrick' # currentTrick =>
             \/ /\ currentTrick' = 1
                /\ trickHistory' = <<>>
                /\ gameActive'
             \/ /\ currentTrick' = currentTrick + 1
                /\ currentTrick \in 1..4
                /\ Resolves
                /\ resolved.trickNumber = currentTrick
        /\ (Resolves /\ currentTrick \in 1..4) =>
             /\ currentTrick' = currentTrick + 1
             /\ gameActive' = gameActive
        /\ (gameActive /\ ~gameActive') <=>
             (gameActive /\ Resolves /\ currentTrick = 5)
        /\ (gameActive /\ ~gameActive') =>
             /\ Len(trickHistory') = 5
             /\ numberedInOrder(trickHistory')
             /\ currentTrick' = 5
       ]_vars

\* A round that has ended with trick 5 won by the human.
C7_Witness ==
  /\ ~gameActive
  /\ currentTrick = 5
  /\ Len(trickHistory) = 5
  /\ playerScore = 1

\* No accepted play of the round was made in the trick numbered currentTrick.
noCardOfCurrentTrick ==
  \A i \in 1..Len(playLog) : playLog[i].trickNumber # currentTrick

\* C8, as claimed.  In every state of an active round (here: of the rounds
\* whose calls keep to the protocol), leadCard is null exactly when no card
\* of the trick numbered currentTrick has been played.
C8_AsClaimed ==
  (gameActive /\ ~offProtocol) => ((leadCard = null) <=> noCardOfCurrentTrick)

\* C8, amended.  leadCard is null exactly when no card has been played since
\* the table was last cleared (playedCards is empty); in an active round that
\* keeps to the protocol it is null exactly when no card of the trick numbered
\* currentTrick has been played, except while a resolved trick 1..4 lies on
\* the table: then leadCard is that trick's lead card and no card of trick
\* currentTrick has been played.
C8_LeadCardNull ==
  /\ (leadCard = null) <=> (playedCards = <<>>)
  /\ (followCard # null) => (leadCard # null)
  /\ (gameActive /\ ~offProtocol) =>
       IF followCard = null
       THEN (leadCard = null) <=> noCardOfCurrentTrick
       ELSE (leadCard # null) /\ noCardOfCurrentTrick

\* A resolved trick 1..4 lies on the table: the next trick has no card yet.
C8_Witness ==
  /\ gameActive
  /\ ~offProtocol
  /\ followCard # null
  /\ leadCard # null
  /\ noCardOfCurrentTrick
  /\ Len(playedCards) = 2

\* C9.  Illegal moves are values: a playCard(card, p) call made when
\* canPlayCard(card, p) is false returns false and leaves the hands, the
\* table, the players, the trick number, the history, the scores and
\* gameActive as they were.
C9_IllegalMove ==
  [][\A p \in Players : \A c \in CardInputs(p) :
       (~canPlayCard(c, p) /\ PlayCard(c, p)) =>
         /\ result' = "false"
         /\ UNCHANGED gameVars
         /\ UNCHANGED playLog
    ]_vars

\* A call was rejected while the caller's turn was to follow with a hand
\* that holds the lead suit and another suit.
C9_Witness ==
  /\ gameActive
  /\ result = "false"
  /\ leadCard # null
  /\ followCard = null
  /\ ofLeadSuit(currentPlayer) # {}
  /\ ofLeadSuit(currentPlayer) # Range(handOf(currentPlayer))

highRanks == {"10", "jack", "queen", "king", "ace"}

\* The hands of a state: the two hands and the hand a redeal would deal.
handsAtHand == {playerHand, aiHand, dealt(deck, HandSize)}

\* C13.  Redeal eligibility: every non-empty hand qualifies for a redeal
\* exactly when its highest card value is at most 9, that is when it holds no
\* 10, jack, queen, king or ace.
C13_RedealEligibility ==
  \A hand \in handsAtHand :
    hand # <<>> =>
      /\ handQualifiesForRedeal(hand) <=>
           (\A c \in Range(hand) : getValue(c) <= 9)
      /\ handQualifiesForRedeal(hand) <=>
           (\A c \in Range(hand) : c.rank \notin highRanks)

\* The player holds a hand with a 9 and nothing higher, which qualifies; the
\* AI holds a hand with a 10 or higher, which does not.
C13_Witness ==
  /\ playerHand # <<>>
  /\ \E c \in Range(playerHand) : c.rank = "9"
  /\ handQualifiesForRedeal(playerHand)
  /\ aiHand # <<>>
  /\ ~handQualifiesForRedeal(aiHand)

\* The player who led trick 1 of the round of the state.
startingLeader ==
  IF trickHistory # <<>> THEN trickHistory[1].leadPlayer ELSE leadPlayer

\* C11, as claimed.  Starting leader: a startNewRound call that follows a
\* round sets leadPlayer and currentPlayer to the opposite of that round's
\* starting leader, so consecutive rounds never start with the same leader.
C11_AsClaimed ==
  [][(roundActive /\ ~offProtocol /\ StartNewRound) =>
       /\ leadPlayer' = other(startingLeader)
       /\ currentPlayer' = other(startingLeader)
    ]_vars

\* The AI is to play a card from a hand with cards in an active round.
aiToPlay == gameActive /\ currentPlayer = "ai" /\ aiHand # <<>>

\* C15.  The AI never attempts an illegal move: whenever it is the AI's turn
\* in an active round and the AI hand is not empty, every card that
\* chooseCard can return, for each difficulty, is one of getValidCards('ai')
\* and is accepted by canPlayCard, so that playCard returns true.
C15_AILegalMove ==
  aiToPlay =>
    \A difficulty \in Difficulties : \A c \in chooseCard(game, difficulty) :
      /\ c \in Range(getValidCards("ai"))
      /\ canPlayCard(c, "ai")

\* The AI follows with a hand that holds the lead suit and another suit, and
\* the levels do not all choose the same card.
C15_Witness ==
  /\ aiToPlay
  /\ leadCard # null
  /\ followCard = null
  /\ ofLeadSuit("ai") # {}
  /\ ofLeadSuit("ai") # Range(aiHand)
  /\ chooseCardMedium(game) # chooseCardGrandmaster(game)
  /\ chooseCardMedium(game) \in Range(getValidCards("ai"))
  /\ chooseCardGrandmaster(game) \in Range(getValidCards("ai"))

\* The cards of the AI hand of the lead suit that beat the lead card.
aiWinningCards ==
  {c \in Range(aiHand) :
     c.suit = leadCard.suit /\ getValue(c) > getValue(leadCard)}

\* The AI is to follow a lead card in one of the tricks 1..4.
aiFollowsEarly ==
  /\ currentTrick \in 1..4
  /\ currentPlayer = "ai"
  /\ leadCard # null
  /\ followCard = null

\* C16.  Grandmaster never ducks: on tricks 1-4, when the AI follows and
\* holds a card of the lead suit that beats the lead card, Grandmaster plays
\* the lowest such card, and that card wins the trick for the AI.
C16_NeverDucks ==
  (aiFollowsEarly /\ aiWinningCards # {}) =>
    LET chosen == chooseCardGrandmaster(game) IN
    /\ chosen \in aiWinningCards
    /\ \A c \in aiWinningCards : getValue(chosen) <= getValue(c)
    /\ trickWinner(leadCard, chosen, leadPlayer) = "ai"

\* The AI follows on a trick 1..4 holding two cards that beat the lead card
\* and a card of another suit.
C16_Witness ==
  /\ aiFollowsEarly
  /\ Cardinality(aiWinningCards) >= 2
  /\ \E c \in Range(aiHand) : c.suit # leadCard.suit
  /\ chooseCardGrandmaster(game) \in aiWinningCards

\* The cards of the AI hand of a suit in opponentVoidSuits.
voidSuitCards == {c \in Range(aiHand) : c.suit \in updateOpponentVoids(game)}

\* Grandmaster is to lead trick 5 and holds a card of a suit in
\* opponentVoidSuits.
leadsTrick5IntoVoid ==
  /\ gameActive
  /\ currentTrick = 5
  /\ currentPlayer = "ai"
  /\ leadCard = null
  /\ voidSuitCards # {}

\* C17, as claimed.  Void exploitation is a guaranteed win: whenever
\* Grandmaster leads trick 5 holding a card of a suit in opponentVoidSuits, it
\* leads the lowest such card, the human holds no card of that suit, and so
\* every card the human can follow with leaves trick 5 to the AI.
C17_AsClaimed ==
  leadsTrick5IntoVoid =>
    LET chosen == chooseCardGrandmaster(game) IN
    /\ chosen \in voidSuitCards
    /\ \A c \in voidSuitCards : getValue(chosen) <= getValue(c)
    /\ \A c \in Range(playerHand) : c.suit # chosen.suit
    /\ \A c \in Range(playerHand) : trickWinner(chosen, c, "ai") = "ai"

\* The human has led trick 5 and the AI, to follow, holds cards but none of
\* the lead suit.
aiVoidOnTrick5 ==
  /\ gameActive
  /\ currentTrick = LastTrick
  /\ leadPlayer = "player"
  /\ currentPlayer = "ai"
  /\ leadCard # null
  /\ followCard = null
  /\ aiHand # <<>>
  /\ ofLeadSuit("ai") = {}

\* C18.  When the human leads trick 5 and the AI holds no card of the lead
\* suit, every card chooseCard can return, for each difficulty, is a card of
\* the AI hand that playCard accepts, and the play that follows resolves the
\* trick for the leader: the human's score goes up by one, the AI's score
\* stays, and the round is over.
C18_OffSuitTrick5 ==
  /\ [](aiVoidOnTrick5 =>
          \A difficulty \in Difficulties : \A c \in chooseCard(game, difficulty) :
            /\ c \in Range(aiHand)
            /\ c.suit # leadCard.suit
            /\ canPlayCard(c, "ai"))
  /\ [][\A difficulty \in Difficulties :
          (aiVoidOnTrick5 /\ followCard' \in chooseCard(game, difficulty)) =>
            /\ result' = "true"
            /\ Resolves
            /\ resolved.winner = "player"
            /\ playerScore' = playerScore + 1
            /\ aiScore' = aiScore
            /\ ~gameActive'
       ]_vars

\* Reached: the round ended with the human's lead of trick 5 winning against
\* an off-suit card of the AI, played on the default line.
C18_Witness ==
  /\ ~gameActive
  /\ ~offProtocol
  /\ Len(trickHistory) = LastTrick
  /\ trickHistory[LastTrick].leadPlayer = "player"
  /\ trickHistory[LastTrick].followCard.suit # trickHistory[LastTrick].leadCard.suit
  /\ trickHistory[LastTrick].winner = "player"
  /\ followCard = trickHistory[LastTrick].followCard
  /\ playerScore = 1
  /\ aiScore = 0

\* The record evaluateTrick pushed last.
lastTrick == trickHistory[Len(trickHistory)]

\* C20.  followCard is set only by a play made with a lead card on the table,
\* and the trick is evaluated in the same step: a step that changes followCard
\* to a card starts with a lead card on the table, keeps it there and pushes
\* the record of the trick; and in every state with a followCard the last
\* record of trickHistory holds that followCard and the leadCard on the table.
C20_FollowCardSync ==
  /\ [][(followCard' # followCard /\ followCard' # null) =>
          /\ leadCard # null
          /\ leadCard' = leadCard
          /\ result' = "true"
          /\ Resolves
          /\ resolved.followCard = followCard'
          /\ resolved.leadCard = leadCard
       ]_vars
  /\ [](followCard # null =>
          /\ leadCard # null
          /\ trickHistory # <<>>
          /\ lastTrick.followCard = followCard
          /\ lastTrick.leadCard = leadCard)

\* Reached: a follow card lies on the table over its lead card, and the trick
\* they make is the last record of trickHistory.
C20_Witness ==
  /\ followCard # null
  /\ leadCard # null
  /\ result = "true"
  /\ lastTrick.followCard = followCard
  /\ lastTrick.leadCard = leadCard
  /\ Len(trickHistory) >= 2

\* Game states that agree with `game` on aiHand, leadCard, currentTrick and
\* trickHistory and differ from it in the human's hand, in the remaining deck
\* or in both.
hiddenVariants ==
  ({[game EXCEPT !.playerHand = hand] :
      hand \in {<<>>, aiHand, dealt(deck, HandSize),
                 SubSeq(playerHand, 2, Len(playerHand))}}
   \cup {[game EXCEPT !.deck = cards] :
           cards \in {<<>>, initialize, afterDeal(deck, HandSize)}}
   \cup {[game EXCEPT !.playerHand = dealt(deck, HandSize), !.deck = playerHand]})
    \ {game}

\* C19.  chooseCard reads nothing hidden: in every state where the AI is to
\* play, a game state that agrees on aiHand, leadCard, currentTrick and
\* trickHistory and differs in playerHand or in the deck yields the same card
\* for medium, hard and grandmaster, and the same set of possible cards for
\* easy.
C19_NoHiddenInformation ==
  aiToPlay =>
    \A variant \in hiddenVariants : \A difficulty \in Difficulties :
      chooseCard(variant, difficulty) = chooseCard(game, difficulty)

\* Reached: Grandmaster is to lead trick 5 with a suit recorded as a void of
\* the human, who holds a card, and the variants of its hand and of the deck
\* are game states of their own.
C19_Witness ==
  /\ leadsTrick5IntoVoid
  /\ ~offProtocol
  /\ aiHand # <<>>
  /\ playerHand # <<>>
  /\ Cardinality(hiddenVariants) >= 6
  /\ chooseCardGrandmaster(game) \in Range(aiHand)

\* C14, as claimed.  In the interface, under every interleaving of clicks and
\* timers, redealHand is applied to a side only while no card of the round has
\* been played (trickHistory empty and leadCard null), and at most once per
\* side per round.
C14_AsClaimed ==
  [][\A player \in Players :
       redeals'[player] > redeals[player] =>
         /\ trickHistory = <<>>
         /\ leadCard = null
         /\ redeals[player] = 0
    ]_vars

\* A step deals a new round.
deals == gameActive' /\ trickHistory' = <<>> /\ result' = noResult
           /\ Len(deck') = Len(initialize) - 2 * HandSize
           /\ (~gameActive \/ trickHistory # <<>> \/ result # noResult
                \/ Len(deck) # Len(deck'))

\* A score has reached the goal.
matchWon == playerScore >= scoreGoal \/ aiScore >= scoreGoal

\* The round is over and the next one not yet dealt.
roundOver == roundActive /\ ~gameActive

\* A step in which the user presses a button of the notification.
acknowledges == notification.open /\ ~notification'.open

\* A step in which startNewGame runs, on New Game or Restart.
startsNewGame ==
  /\ Len(timers') = Len(timers) + 1
  /\ timers'[Len(timers')].handler = "handleRedealOffers"

\* C12.  Match termination.  After a round that ended with a score at the
\* goal no round is started automatically: the notification that
\* handleGameOver shows starts a new match on OK, and the next deal comes
\* with a click (the OK of that notification, New Game or Restart) and with
\* both scores reset to 0, through startNewMatch.  After a round that ended
\* with both scores below the goal the notification starts the next round on
\* OK, and that deal keeps both scores.
C12_MatchTermination ==
  /\ [][(roundOver /\ deals) => (acknowledges \/ startsNewGame)]_vars
  /\ [][(roundOver /\ matchWon /\ deals) =>
          /\ playerScore' = 0
          /\ aiScore' = 0
       ]_vars
  /\ [][(roundOver /\ ~matchWon /\ deals /\ acknowledges) =>
          /\ playerScore' = playerScore
          /\ aiScore' = aiScore
       ]_vars
  /\ [][(roundOver /\ fires("handleGameOver")
            /\ notification'.open /\ ~notification.open) =>
          notification'.onOk = IF matchWon THEN "startNewMatch" ELSE "startNewRound"
       ]_vars

\* Reached: a round ended with a score at the goal, and handleGameOver shows
\* the notification whose OK starts a new match.
C12_Witness ==
  /\ roundOver
  /\ matchWon
  /\ Len(trickHistory) = LastTrick
  /\ timers = <<>>
  /\ notification = [open |-> TRUE, onOk |-> "startNewMatch"]

\* Reached as well: a round dealt on the OK of the round's notification, with
\* the point of the round before and both scores below the goal.
C12_NextRoundReached ==
  /\ gameActive
  /\ trickHistory = <<>>
  /\ leadCard = null
  /\ playerScore + aiScore = 1
  /\ ~matchWon
  /\ notification = [open |-> FALSE, onOk |-> "startNewRound"]

\* The score goal is one of the goals the settings allow.
validScoreGoal == scoreGoal \in 1..20

\* The numbers whose decimal form is typed into the score-goal input: the
\* goals 1..20 and the numbers next to them.
GoalNumbers == (-MaxLen)..(20 + MaxLen)

\* C21: the change handler of the score-goal input takes a text exactly when
\* it parses to an integer of 1..20, and then sets and saves that goal; any
\* other text (0, 21, a negative number, no number, the empty text) leaves
\* scoreGoal and the saved items as they are; the decimal form of a number n
\* is taken exactly when n is 1..20; a goal of 1..20, the default 5 among
\* them, stays in 1..20 under every change of the settings.
C21_ScoreGoalBoundary ==
  /\ [](\A text \in Texts :
          IF parseInt(text) \in 1..20
          THEN /\ scoreGoalChanged(text).scoreGoal = parseInt(text)
               /\ scoreGoalChanged(text).localStorage.scoreGoal =
                    toString(parseInt(text))
          ELSE /\ scoreGoalChanged(text).scoreGoal = scoreGoal
               /\ scoreGoalChanged(text).localStorage = localStorage)
  /\ [](\A n \in GoalNumbers :
          scoreGoalChanged(toString(n)).scoreGoal =
            IF n \in 1..20 THEN n ELSE scoreGoal)
  /\ [][validScoreGoal => validScoreGoal']_vars
  /\ [][(scoreGoal' # scoreGoal /\ localStorage' # localStorage) =>
          /\ validScoreGoal'
          /\ localStorage'.scoreGoal = toString(scoreGoal')]_vars

\* On the first visit (default goal 5, nothing saved) the text "2a" was typed
\* and taken as 2, and the goal 2 was saved.
C21_Witness ==
  /\ scoreGoalInput = <<"2", "a">>
  /\ scoreGoal = 2
  /\ localStorage = [aiDifficulty |-> DefaultDifficulty, scoreGoal |-> <<"2">>]

\* C22: after loadSettings the score goal is an integer of 1..20 and the
\* difficulty is one of easy, medium, hard and grandmaster, whatever
\* localStorage held.
C22_AsClaimed ==
  /\ validScoreGoal
  /\ aiDifficulty \in Difficulties

\* The step is a playCard call that was accepted.
acceptsPlay == Len(playLog') = Len(playLog) + 1

\* C23: once trick 5 has resolved (gameActive false), no playCard call is
\* accepted until a new round starts, and the round has at most five trick
\* records.
C23_AsClaimed ==
  /\ [](Len(trickHistory) <= LastTrick)
  /\ [][(roundActive /\ ~gameActive) => ~acceptsPlay]_vars

\* C24: while the two cards of a resolved trick lie on the table (followCard
\* is a card), no playCard call is accepted.
C24_AsClaimed == [][followCard # null => ~acceptsPlay]_vars

\* The accepted playCard calls of the round made for trick `number` with
\* `card` by `player`.
playsOf(number, card, player) ==
  {i \in 1..Len(playLog) :
     playLog[i] = [trickNumber |-> number, card |-> card, player |-> player]}

\* The record holds one card played by the human and one played by the AI,
\* both during the trick of the record.
onePlayEach(record) ==
  /\ Cardinality(playsOf(record.trickNumber, record.leadCard,
                         record.leadPlayer)) = 1
  /\ Cardinality(playsOf(record.trickNumber, record.followCard,
                         other(record.leadPlayer))) = 1

\* C25: in every state the interface reaches, each trickHistory record holds
\* one card the human played and one card the AI played during that trick;
\* the two hands differ by at most one card, and have the same number of
\* cards whenever no trick is in progress.
C25_AsClaimed ==
  /\ \A k \in 1..Len(trickHistory) : onePlayEach(trickHistory[k])
  /\ Len(playerHand) - Len(aiHand) \in -1..1
  /\ inFlight = 0 => Len(playerHand) = Len(aiHand)

\* The cards of the trickHistory records, two per record.
RECURSIVE recordCards(_)
recordCards(history) ==
  IF history = <<>>
  THEN <<>>
  ELSE <<history[1].leadCard, history[1].followCard>> \o recordCards(Tail(history))

\* The cards of the round, place by place: the deck, the two hands, the lead
\* card in flight and the records of the resolved tricks.
cardsOfRound ==
  deck \o playerHand \o aiHand
       \o (IF inFlight = 1 THEN <<leadCard>> ELSE <<>>)
       \o recordCards(trickHistory)

\* C26: in every state the cards in the deck, in the two hands, in the lead
\* slot in flight and in the trickHistory records are pairwise distinct cards
\* of the 52; right after startNewRound each hand has 5 cards and the deck 42.
C26_AsClaimed ==
  /\ Range(cardsOfRound) \subseteq Cards
  /\ Cardinality(Range(cardsOfRound)) = Len(cardsOfRound)
  /\ (gameActive /\ playLog = <<>> /\ redeals = noRedeals) =>
       /\ Len(playerHand) = HandSize
       /\ Len(aiHand) = HandSize
       /\ Len(deck) = Len(initialize) - 2 * HandSize

\* The step resolves trick 5 of an active round: the round is completed.
completesRound == gameActive /\ ~gameActive'

\* The step sets both scores to 0, as startNewMatch and resetScores do.
resetsScores == playerScore' = 0 /\ aiScore' = 0

\* C27: a step that completes a round raises exactly one of the two scores,
\* by exactly 1; no other step changes a score, except that startNewMatch and
\* resetScores set both to 0.  (So the sum of the scores is the number of
\* rounds completed since the scores were last set to 0.)
C27_AsClaimed ==
  /\ [][completesRound =>
          \/ playerScore' = playerScore + 1 /\ aiScore' = aiScore
          \/ aiScore' = aiScore + 1 /\ playerScore' = playerScore]_vars
  /\ [][(playerScore' # playerScore \/ aiScore' # aiScore) =>
          completesRound \/ resetsScores]_vars

\* The step is the callback of handleGameOver showing that the match is won.
detectsMatchWin ==
  /\ fires("handleGameOver")
  /\ notification'.open
  /\ notification'.onOk = "startNewMatch"

\* C28: with a score goal g of 1..20, when handleGameOver finds the match
\* won the winner's score is exactly g and the other score is below g, which
\* is after at most 2g - 1 rounds; and in no state both scores are at g or
\* above.
C28_AsClaimed ==
  /\ [](validScoreGoal => ~(playerScore >= scoreGoal /\ aiScore >= scoreGoal))
  /\ [][(validScoreGoal /\ detectsMatchWin) =>
          /\ \/ playerScore = scoreGoal /\ aiScore < scoreGoal
             \/ aiScore = scoreGoal /\ playerScore < scoreGoal
          /\ playerScore + aiScore <= 2 * scoreGoal - 1]_vars


\* Trick 5 of an active round whose callers kept to the protocol: cards of
\* the hand played in turn on a cleared table, clearTrick after each resolved
\* trick.
legalTrick5 == gameActive /\ currentTrick = LastTrick /\ ~offProtocol

\* `player` has played the lead card of trick 5 and the answer is awaited.
hasLedTrick5(player) ==
  leadCard # null /\ followCard = null /\ leadPlayer = player

\* C30.  Trick 5 is forced: under legal play, once trick 4 has resolved each
\* player holds exactly one card until that card is played to trick 5, the
\* player on turn has exactly one valid card, and when the AI is on turn
\* easy, medium, hard and grandmaster all return the AI's one card, so the
\* difficulty cannot change the outcome of trick 5.
C30_Trick5Forced ==
  legalTrick5 =>
    /\ \A player \in Players :
         Len(handOf(player)) = IF hasLedTrick5(player) THEN 0 ELSE 1
    /\ Len(getValidCards(currentPlayer)) = 1
    /\ currentPlayer = "ai" =>
         /\ Len(validCardsOf(game)) = 1
         /\ \A difficulty \in Difficulties :
              chooseCard(game, difficulty) = {aiHand[1]}

\* The human has led the last card to trick 5 and the AI answers with a card
\* of another suit, the only card it holds.
C30_Witness ==
  /\ legalTrick5
  /\ hasLedTrick5("player")
  /\ currentPlayer = "ai"
  /\ Len(aiHand) = 1
  /\ aiHand[1].suit # leadCard.suit
  /\ Len(trickHistory) = LastTrick - 1



\* A round in which the human can still click: the cap on the points of a
\* match is not reached.
roundInPlay == gameActive /\ playerScore + aiScore < MaxPoints

\* The AI is on turn with the table cleared or a lead card to answer.
aiOnTurn == gameActive /\ currentPlayer = "ai" /\ followCard = null

\* C29.  Rounds never get stuck: with every pending callback run and the
\* human playing a legal card whenever the turn is theirs, an active round
\* reaches the resolution of trick 5; the step that resolves trick 5 leaves
\* the call of handleGameOver scheduled, and handleGameOver runs once for the
\* round, so two of its callbacks are never pending together; whenever the AI
\* is on turn with the table cleared or a lead card to answer, a handleAITurn
\* callback is pending.
C29_AsClaimed ==
  /\ roundInPlay ~> ~gameActive
  /\ [][completesRound =>
          (pending("handleGameOver") \cup pending("clearTrick"))' # {}]_vars
  /\ [](Cardinality(pending("handleGameOver")) <= 1)
  /\ [](aiOnTurn => pending("handleAITurn") # {})



\* C31.  canPlayCard and getValidCards agree: for the player on turn and
\* every card of that player's hand, canPlayCard is true exactly when the
\* card is one of getValidCards; and getValidCards is not empty when the
\* hand is not, so the player to act always has a legal card.
C31_ValidCardsAgree ==
  \A player \in Players :
    currentPlayer = player =>
      /\ \A card \in Range(handOf(player)) :
           canPlayCard(card, player) <=> card \in Range(getValidCards(player))
      /\ handOf(player) # <<>> => getValidCards(player) # <<>>

\* The human answers a lead of the AI with a hand that holds the lead suit
\* and another suit: some cards of the hand are legal and some are not.
C31_Witness ==
  /\ gameActive
  /\ currentPlayer = "player"
  /\ leadCard # null
  /\ followCard = null
  /\ \E card \in Range(playerHand) : canPlayCard(card, "player")
  /\ \E card \in Range(playerHand) : ~canPlayCard(card, "player")
  /\ Range(getValidCards("player")) # Range(playerHand)


\* The state a new round starts in.
newRoundState ==
  /\ currentTrick = 1
  /\ leadCard = null
  /\ followCard = null
  /\ trickHistory = <<>>
  /\ Len(playerHand) = HandSize
  /\ Len(aiHand) = HandSize
  /\ gameActive

\* The interface calls game.startNewRound: Restart in a round that is
\* active, or OK on the notification of a round.
callsStartNewRound == (ClickRestart \/ ClickOk) /\ StartNewRound

\* The interface calls game.startNewMatch: New Game, Restart after a round,
\* or OK on the notification of a match.
callsStartNewMatch == (ClickNewGame \/ ClickRestart \/ ClickOk) /\ StartNewMatch

\* C32.  startNewRound keeps the match: it leaves playerScore, aiScore,
\* scoreGoal and aiDifficulty unchanged and resets currentTrick to 1,
\* leadCard and followCard to null and trickHistory to empty, with 5 cards in
\* each hand and gameActive true; startNewMatch differs only in first setting
\* both scores to 0.
C32_NewRoundKeepsMatch ==
  /\ [][callsStartNewRound =>
          /\ newRoundState'
          /\ UNCHANGED <<playerScore, aiScore, scoreGoal, aiDifficulty>>]_vars
  /\ [][callsStartNewMatch =>
          /\ newRoundState'
          /\ playerScore' = 0
          /\ aiScore' = 0
          /\ UNCHANGED <<scoreGoal, aiDifficulty>>]_vars

\* A round has just been started with a point of an earlier round on the
\* score board, below the score goal.
C32_Witness ==
  /\ newRoundState
  /\ playLog = <<>>
  /\ playerScore + aiScore > 0
  /\ scoreGoal > playerScore
  /\ scoreGoal > aiScore


\* The step appends a record to trickHistory: evaluateTrick has run.
evaluatesTrick == Len(trickHistory') = Len(trickHistory) + 1

\* The step starts a round: the only operation that empties trickHistory.
startsRound == StartNewRound \/ StartNewMatch

\* C33.  clearTrick only clears the table: it sets leadCard and followCard to
\* null and empties playedCards, and leaves both hands, currentPlayer,
\* leadPlayer, currentTrick, trickHistory, the scores and gameActive
\* unchanged; evaluateTrick never clears the two slots, which hold the cards
\* of the record it appends; and the records of trickHistory are never
\* modified by a later operation of the round.
C33_ClearTrickFrame ==
  /\ [][ClearTrick =>
          /\ leadCard' = null
          /\ followCard' = null
          /\ playedCards' = <<>>
          /\ UNCHANGED <<playerHand, aiHand, currentPlayer, leadPlayer,
                         currentTrick, trickHistory, playerScore, aiScore,
                         gameActive>>]_vars
  /\ [][evaluatesTrick =>
          /\ leadCard' # null
          /\ followCard' # null
          /\ leadCard' = trickHistory'[Len(trickHistory')].leadCard
          /\ followCard' = trickHistory'[Len(trickHistory')].followCard]_vars
  /\ [][trickHistory' # trickHistory =>
          \/ startsRound
          \/ /\ evaluatesTrick
             /\ SubSeq(trickHistory', 1, Len(trickHistory)) = trickHistory]_vars

\* The table has been cleared after the second trick: the two records are
\* in trickHistory, the winner of the second is on turn, no card is on the
\* table.
C33_Witness ==
  /\ gameActive
  /\ Len(trickHistory) = 2
  /\ leadCard = null
  /\ followCard = null
  /\ playedCards = <<>>
  /\ currentTrick = 3
  /\ currentPlayer = trickHistory[2].winner
  /\ Len(playerHand) = HandSize - 2
  /\ Len(aiHand) = HandSize - 2


\* The step is a redealHand call for `player`.
redealsHand(player) == redeals'[player] = redeals[player] + 1

\* C34.  redealHand(p) replaces p's hand by the next 5 cards from the front
\* of the remaining deck, which is not reshuffled, and discards the old hand;
\* it leaves the other hand, the scores, currentPlayer, currentTrick and
\* trickHistory unchanged.  In handleRedealOffers the AI's hand is redealt
\* exactly when it qualifies, and the human's only when it qualifies and the
\* human accepts.
C34_AsClaimed ==
  /\ [][\A player \in Players :
          redealsHand(player) =>
            /\ handOf(player)' = SubSeq(deck, 1, HandSize)
            /\ deck' = SubSeq(deck, HandSize + 1, Len(deck))
            /\ Range(handOf(player)) \cap Range(deck') = {}
            /\ handOf(other(player))' = handOf(other(player))
            /\ UNCHANGED <<playerScore, aiScore, currentPlayer, currentTrick,
                           trickHistory>>]_vars
  /\ [][redealsHand("ai") => handQualifiesForRedeal(aiHand)]_vars
  /\ [][redealsHand("player") =>
          ClickYes /\ handQualifiesForRedeal(playerHand)]_vars
  /\ [][(HandleRedealOffers /\ handQualifiesForRedeal(aiHand)) =>
          \/ Cardinality(pending("aiRedeal"))' = Cardinality(pending("aiRedeal")) + 1
          \/ /\ Len(offers') = Len(offers) + 1
             /\ offers'[Len(offers')]]_vars


\* The loop of updateOpponentVoids over the records of trickHistory, adding
\* to the set `voids`.
RECURSIVE scanTricks(_, _)
scanTricks(voids, history) ==
  IF history = <<>>
  THEN voids
  ELSE scanTricks(
         IF /\ history[1].leadPlayer = "ai"
            /\ history[1].followCard.suit # history[1].leadCard.suit
         THEN voids \cup {history[1].leadCard.suit}
         ELSE voids,
         Tail(history))

\* An updateOpponentVoids without this.opponentVoidSuits.clear().
opponentVoidSuitsKept(previous, history) == scanTricks(previous, history)

\* this.opponentVoidSuits after AI.updateOpponentVoids, which found the set
\* `previous` in it: clear(), then the loop.
opponentVoidSuitsAfter(previous, history) == scanTricks({}, history)

\* The lead suits of the records of the round that the AI led and the human
\* answered in another suit.
offSuitAnswers ==
  {record.leadCard.suit : record \in
     {r \in Range(trickHistory) :
        r.leadPlayer = "ai" /\ r.followCard.suit # r.leadCard.suit}}

\* C35.  Void tracking: after each Grandmaster decision opponentVoidSuits is
\* exactly the set of the lead suits of the records of the round's
\* trickHistory with leadPlayer 'ai' and a followCard of another suit than
\* the leadCard, whatever the set held before, so that it never contains a
\* suit inferred in an earlier round or match; this is the set the decision
\* reads.
C35_VoidTracking ==
  /\ \A previous \in SUBSET Range(Suits) :
       opponentVoidSuitsAfter(previous, trickHistory) = offSuitAnswers
  /\ updateOpponentVoids(game) = offSuitAnswers

\* Grandmaster is to play with a recorded void: the AI led a suit that the
\* human answered in another one, and the AI itself answered a lead of the
\* human in another suit, which is no void of the human.
C35_Witness ==
  /\ gameActive
  /\ currentPlayer = "ai"
  /\ followCard = null
  /\ aiHand # <<>>
  /\ offSuitAnswers # {}
  /\ \E r \in Range(trickHistory) :
       /\ r.leadPlayer = "player"
       /\ r.followCard.suit # r.leadCard.suit
       /\ r.leadCard.suit \notin offSuitAnswers


\* `card` is a card of lowest value among `cards`.
lowestValued(card, cards) ==
  card \in cards /\ \A c \in cards : getValue(card) <= getValue(c)

\* `card` is a card of highest value among `cards`.
highestValued(card, cards) ==
  card \in cards /\ \A c \in cards : getValue(card) >= getValue(c)

\* The AI's cards of the lead suit below and above the lead card.
aiLosingCards == {c \in ofLeadSuit("ai") : getValue(c) < getValue(leadCard)}

\* The AI is to play in one of the tricks 1 to 4.
aiPlaysEarly == aiToPlay /\ currentTrick \in 1..4

\* C36.  Medium on tricks 1-4: leading, it returns the lowest-valued card of
\* the hand; following with cards of the lead suit, the lowest card strictly
\* below the lead value if there is one, otherwise the lowest card of the
\* lead suit; unable to follow suit, the lowest-valued card of the hand.  An
\* unrecognised difficulty string behaves exactly as medium.
C36_MediumEarly ==
  /\ aiPlaysEarly =>
       LET chosen == chooseCardMedium(game) IN
       IF leadCard = null \/ ofLeadSuit("ai") = {}
       THEN lowestValued(chosen, Range(aiHand))
       ELSE IF aiLosingCards # {}
       THEN lowestValued(chosen, aiLosingCards)
       ELSE lowestValued(chosen, ofLeadSuit("ai"))
  /\ aiToPlay =>
       \A difficulty \in StoredDifficulties \ Difficulties :
         chooseCard(game, difficulty) = chooseCard(game, "medium")

\* Medium answers a lead in tricks 1 to 4 holding a card of the lead suit
\* below the lead card and one above it, and a card of another suit that is
\* lower than both.
C36_Witness ==
  /\ aiPlaysEarly
  /\ leadCard # null
  /\ followCard = null
  /\ aiLosingCards # {}
  /\ aiLosingCards # ofLeadSuit("ai")
  /\ ~lowestValued(chooseCardMedium(game), Range(aiHand))


\* The AI is to answer a lead card in one of the tricks 1 to 4.
aiAnswersEarly == aiPlaysEarly /\ leadCard # null

\* C37.  Hard following on tricks 1-4: unable to follow suit it returns the
\* lowest-valued card of the hand; able to, it returns the highest card of
\* the lead suit below the lead value if there is one, and otherwise the
\* lowest card of the lead suit, which wins the trick.
C37_HardFollowEarly ==
  aiAnswersEarly =>
    LET chosen == chooseCardHard(game) IN
    IF ofLeadSuit("ai") = {}
    THEN lowestValued(chosen, Range(aiHand))
    ELSE IF aiLosingCards # {}
    THEN highestValued(chosen, aiLosingCards)
    ELSE /\ lowestValued(chosen, ofLeadSuit("ai"))
         /\ trickWinner(leadCard, chosen, other("ai")) = "ai"

\* Hard answers a lead in tricks 1 to 4 holding two cards of the lead suit
\* below the lead card and one above it.
C37_Witness ==
  /\ aiAnswersEarly
  /\ followCard = null
  /\ Cardinality(aiLosingCards) >= 2
  /\ aiLosingCards # ofLeadSuit("ai")
  /\ ~lowestValued(chooseCardHard(game), aiLosingCards)


\* The number of cards of `suit` in `hand`.
cardsOfSuit(hand, suit) == Cardinality({i \in 1..Len(hand) : hand[i].suit = suit})

\* The place in `hand` of the first card of a suit of which the hand holds
\* the fewest cards.
firstOfFewest(hand) ==
  CHOOSE i \in 1..Len(hand) :
    /\ \A j \in 1..Len(hand) :
         cardsOfSuit(hand, hand[i].suit) <= cardsOfSuit(hand, hand[j].suit)
    /\ \A j \in 1..(i - 1) :
         cardsOfSuit(hand, hand[j].suit) > cardsOfSuit(hand, hand[i].suit)

\* The place in `hand` of the first card of the lowest value, and of the
\* highest.
firstLowest(hand) ==
  CHOOSE i \in 1..Len(hand) :
    /\ \A j \in 1..Len(hand) : getValue(hand[i]) <= getValue(hand[j])
    /\ \A j \in 1..(i - 1) : getValue(hand[j]) > getValue(hand[i])

firstHighest(hand) ==
  CHOOSE i \in 1..Len(hand) :
    /\ \A j \in 1..Len(hand) : getValue(hand[i]) >= getValue(hand[j])
    /\ \A j \in 1..(i - 1) : getValue(hand[j]) < getValue(hand[i])

\* The AI is to lead one of the tricks 1 to 4.
aiLeadsEarly == aiPlaysEarly /\ leadCard = null

\* Two suits of `hand` tie on the fewest cards.
fewestTie(hand) ==
  \E j \in 1..Len(hand) :
    /\ hand[j].suit # hand[firstOfFewest(hand)].suit
    /\ cardsOfSuit(hand, hand[j].suit) =
         cardsOfSuit(hand, hand[firstOfFewest(hand)].suit)

\* C38.  Hard leading on tricks 1-4 returns the lowest-valued card of the
\* suit in which the AI holds the fewest cards, the first such suit in hand
\* order when several tie on the count; getLowestCard and getHighestCard
\* return the first card in iteration order among the cards of equal extreme
\* value.
C38_HardLeadEarly ==
  /\ aiLeadsEarly =>
       LET chosen == chooseCardHard(game)
           suit == aiHand[firstOfFewest(aiHand)].suit
       IN  /\ chosen.suit = suit
           /\ lowestValued(chosen, {c \in Range(aiHand) : c.suit = suit})
  /\ \A hand \in {playerHand, aiHand} :
       hand # <<>> =>
         /\ getLowestCard(hand) = hand[firstLowest(hand)]
         /\ getHighestCard(hand) = hand[firstHighest(hand)]

\* Hard leads in tricks 1 to 4 with two suits tied on the fewest cards, and
\* the hand holds its lowest value twice.
C38_Witness ==
  /\ aiLeadsEarly
  /\ fewestTie(aiHand)
  /\ \E j \in 1..Len(aiHand) :
       /\ j # firstLowest(aiHand)
       /\ getValue(aiHand[j]) = getValue(aiHand[firstLowest(aiHand)])


\* The AI's cards that are alone in their suit.
aiSingletons == {c \in Range(aiHand) : cardsOfSuit(aiHand, c.suit) = 1}

\* The highest card of each suit of which the AI holds two cards or more.
aiMultiSuitTops ==
  {c \in Range(aiHand) :
     /\ cardsOfSuit(aiHand, c.suit) >= 2
     /\ highestValued(c, {d \in Range(aiHand) : d.suit = c.suit})}

\* C39.  Grandmaster leading on tricks 1-4: if the AI hand has a suit with
\* exactly one card it leads such a card; otherwise it leads the highest card
\* of the multi-card suit whose highest card has the lowest value on tricks
\* 1-2, or the highest value on tricks 3-4.  One of the two cases applies to
\* every hand with cards, so the fallback by trick number is never taken.
C39_GrandmasterLeadEarly ==
  aiLeadsEarly =>
    LET chosen == chooseCardGrandmaster(game) IN
    /\ aiSingletons # {} \/ aiMultiSuitTops # {}
    /\ IF aiSingletons # {}
       THEN chosen \in aiSingletons
       ELSE IF currentTrick <= 2
       THEN lowestValued(chosen, aiMultiSuitTops)
       ELSE highestValued(chosen, aiMultiSuitTops)

\* Grandmaster leads trick 1 or 2 without a singleton and with two
\* multi-card suits whose highest cards differ in value.
C39_Witness ==
  /\ aiLeadsEarly
  /\ currentTrick <= 2
  /\ aiSingletons = {}
  /\ \E c, d \in aiMultiSuitTops : getValue(c) < getValue(d)


\* The AI is to play to trick 5.
aiPlaysTrick5 == aiToPlay /\ currentTrick = LastTrick

\* The number of cards played in the tricks before that are of the suit of
\* `card` and higher.
higherPlayedBefore(card) ==
  LET higher(c) == c.suit = card.suit /\ getValue(c) > getValue(card) IN
  Cardinality({i \in 1..Len(trickHistory) : higher(trickHistory[i].leadCard)})
    + Cardinality({i \in 1..Len(trickHistory) : higher(trickHistory[i].followCard)})

\* value + 2 x (number of already played higher cards of the suit)
leadScore(card) == getValue(card) + 2 * higherPlayedBefore(card)

\* The highest card of each suit of the AI hand.
aiSuitTops ==
  {c \in Range(aiHand) : highestValued(c, {d \in Range(aiHand) : d.suit = c.suit})}

\* The cheapest card that wins the trick if there is one, else the lowest
\* card of the lead suit, else the lowest card.
cheapestWinnerOrLowest(card) ==
  IF aiWinningCards # {}
  THEN lowestValued(card, aiWinningCards)
  ELSE IF ofLeadSuit("ai") # {}
  THEN lowestValued(card, ofLeadSuit("ai"))
  ELSE lowestValued(card, Range(aiHand))

\* C40.  Trick-5 card choice as a function of the legal cards, for every hand
\* with cards: Medium, Hard and Grandmaster when following return the lowest
\* lead-suit card that beats the lead value if there is one, otherwise the
\* lowest lead-suit card, otherwise (void in the lead suit) the lowest card;
\* Medium when leading returns the highest-valued card, and Hard when leading
\* returns the top card of the suit that maximises value + 2 x (number of
\* already played higher cards of that suit).
C40_Trick5Choice ==
  aiPlaysTrick5 =>
    IF leadCard # null
    THEN /\ cheapestWinnerOrLowest(chooseCardMedium(game))
         /\ cheapestWinnerOrLowest(chooseCardHard(game))
         /\ cheapestWinnerOrLowest(chooseCardGrandmaster(game))
    ELSE /\ highestValued(chooseCardMedium(game), Range(aiHand))
         /\ chooseCardHard(game) \in aiSuitTops
         /\ \A c \in aiSuitTops :
              leadScore(chooseCardHard(game)) >= leadScore(c)

\* Hard leads trick 5 from a hand of three cards in two suits and does not
\* lead its highest card: higher cards of the other suit were played.
C40_Witness ==
  /\ aiPlaysTrick5
  /\ leadCard = null
  /\ Len(aiHand) = 3
  /\ Cardinality(aiSuitTops) = 2
  /\ ~highestValued(chooseCardHard(game), Range(aiHand))
  /\ chooseCardHard(game) # chooseCardMedium(game)

=============================================================================
